---- MODULE Spec2Model ----
(***************************************************************************)
(* Client-side API access layer of the news aggregator.                    *)
(*                                                                         *)
(*  - services/newsApi.js, cached/retrying build (proxy only): the cache,  *)
(*    the validators, fetchWithRetry, fetchTopHeadlines, searchNews.       *)
(*  - services/newsApi.js, dual-mode build (direct or proxy): getHeaders,  *)
(*    buildApiUrl, fetchTopHeadlines, searchNews with USE_PROXY / API_KEY. *)
(*  - services/languages.js: LANGUAGES, getCurrentLanguage,                *)
(*    getSelectedSourcesForLanguage.                                       *)
(*                                                                         *)
(* Time is in milliseconds.  JavaScript values that may be of several      *)
(* types are tagged records: [type |-> "undefined"], [type |-> "number",   *)
(* num |-> n], [type |-> "string", str |-> s].                             *)
(***************************************************************************)
EXTENDS Integers, Sequences, FiniteSets, TLC

VARIABLES
    scenario,      \* which bounded family of inputs the environment draws from
    now,           \* Date.now()
    cache,         \* the module-level Map: cache key -> [data, timestamp]
    localStorage,  \* [appLanguage, selectedNewsSourcesByLanguage]
    navigatorLanguage, \* navigator.language
    config,        \* which build runs, and the environment it was built with
    calls,         \* per call of fetchTopHeadlines / searchNews: its position and locals
    started,       \* number of calls started so far
    lastSuccess,   \* history: per cache key, the payload and time of the latest
                   \* successful fetch since the cache was last cleared
    settingsView,  \* components/settings.vue: its refs while it is mounted
    homeView,      \* the home view: its refs, and the call loadArticles awaits
    proxy,         \* api/news.js: the invocation of the handler in progress
    tabs,          \* composables/useSettings.js, per browser tab: its refs, the
                   \* storage events queued for it, and its last operation
    userOps,       \* number of settings operations the users have made
    lastSaved      \* history: per language, the selection last passed to
                   \* saveSelectedSourcesForLanguage (initially what the store holds)

\* The state of the views and composables, and the history kept about them.
\* The tabs running the settings composable.
tabVars == <<tabs, userOps>>

uiVars == <<settingsView, homeView, proxy, tabVars, lastSaved>>

vars == <<scenario, now, cache, localStorage, navigatorLanguage, config, calls,
          started, lastSuccess, uiVars>>

-----------------------------------------------------------------------------
(* JavaScript values *)

Undefined == [type |-> "undefined"]
Num(n) == [type |-> "number", num |-> n]
Str(s) == [type |-> "string", str |-> s]
\* A string kept character by character (the search query).
Chars(cs) == [type |-> "string", chars |-> cs]
NaN == [type |-> "NaN"]
Null == [type |-> "null"]

\* JavaScript truthiness of an option value ("" , 0, NaN and undefined are falsy).
Truthy(v) ==
    CASE v.type = "undefined" -> FALSE
      [] v.type = "NaN" -> FALSE
      [] v.type = "number" -> v.num # 0
      [] v.type = "null" -> FALSE
      [] v.type = "string" ->
            IF "chars" \in DOMAIN v THEN v.chars # <<>> ELSE v.str # ""
      [] OTHER -> TRUE

\* The strings of the model that start with digits, with the integer parseInt
\* reads from them.
LeadingDigits == [s \in {"50", "150", "7up"} |-> IF s = "50" THEN 50
                                                  ELSE IF s = "150" THEN 150 ELSE 7]

\* parseInt(x, 10) on the inputs the model draws: a whole number is itself, a
\* string gives the integer it starts with or NaN, undefined and null give NaN.
ParseInt(v) ==
    IF v.type = "number" THEN v
    ELSE IF v.type = "string" /\ "str" \in DOMAIN v /\ v.str \in DOMAIN LeadingDigits
      THEN Num(LeadingDigits[v.str])
    ELSE NaN

Min(a, b) == IF a < b THEN a ELSE b
Max(a, b) == IF a > b THEN a ELSE b

-----------------------------------------------------------------------------
(* Bounds of the model *)

\* Calls started in one behaviour.
MaxCalls == 3
\* No call starts after this time; the clock then advances only while a
\* backoff timer is pending.
MaxNow == 300000
\* Longest query composed character by character.
MaxQueryLen == 2

-----------------------------------------------------------------------------
(* services/languages.js *)

\* The keys of LANGUAGES with their apiLanguage.
LANGUAGES ==
    [en |-> "en", pt |-> "pt", es |-> "es", fr |-> "fr", de |-> "de", it |-> "it"]

\* Property names every object literal inherits from Object.prototype; the
\* model draws "toString" (a function whose length is 0).
InheritedKeys == {"toString"}

\* LANGUAGES[code]: the profile of an own key, the inherited member for an
\* inherited key, undefined otherwise.
LanguagesLookup(code) ==
    IF code \in DOMAIN LANGUAGES
      THEN [type |-> "profile", apiLanguage |-> LANGUAGES[code]]
      ELSE IF code \in InheritedKeys
        THEN [type |-> "inherited", apiLanguage |-> "undefined"]
        ELSE Undefined

\* navigator.language.substring(0, 2).toLowerCase() on the tags the model draws.
BrowserLang(tag) ==
    CASE tag = "pt-BR" -> "pt"
      [] tag = "EN-us" -> "en"
      [] OTHER -> "zz"

getCurrentLanguage(ls, nav) ==
    IF Truthy(ls.appLanguage) /\ Truthy(LanguagesLookup(ls.appLanguage.str))
      THEN ls.appLanguage.str
      ELSE IF Truthy(LanguagesLookup(BrowserLang(nav)))
        THEN BrowserLang(nav)
        ELSE "en"

\* Mutation of getSelectedSourcesForLanguage: the selection of 'en' whatever
\* the language asked for.
getSelectedSourcesAnyLanguage(ls, languageCode) ==
    LET stored == ls.selectedNewsSourcesByLanguage IN
    IF stored = Null THEN <<>>
    ELSE IF stored.type = "malformed" THEN <<>>
    ELSE IF "en" \in DOMAIN stored.data THEN stored.data["en"]
    ELSE <<>>

\* The stored selection is null (nothing stored), "malformed" (JSON.parse
\* throws) or a parsed object: a function from language codes to sequences.
\* The result is a sequence of source ids; for an inherited key of a parsed
\* object it is the inherited function, whose length is 0.
getSelectedSourcesForLanguage(ls, languageCode) ==
    LET stored == ls.selectedNewsSourcesByLanguage IN
    IF stored = Null THEN <<>>
    ELSE IF stored.type = "malformed" THEN <<>>
    ELSE IF languageCode \in DOMAIN stored.data THEN stored.data[languageCode]
    ELSE <<>>

\* JSON.parse of the stored text: the object, or a SyntaxError.
JsonParse(stored) ==
    IF stored.type = "malformed"
      THEN [ok |-> FALSE, error |-> "SyntaxError"]
      ELSE [ok |-> TRUE, value |-> stored.data]

\* JSON.stringify of an object whose values are arrays of strings.
JsonStringify(data) == [type |-> "json", data |-> data]

\* data[languageCode] = sources on a plain object.
AssignKey(data, key, value) ==
    [k \in DOMAIN data \cup {key} |-> IF k = key THEN value ELSE data[k]]

\* Mutation of saveSelectedSourcesForLanguage: the stored object is replaced
\* by one holding the saved language alone.
saveSelectedSourcesOverwriteAll(ls, languageCode, sources) ==
    [ls EXCEPT !.selectedNewsSourcesByLanguage =
        JsonStringify(AssignKey(<<>>, languageCode, sources))]

\* The store after saveSelectedSourcesForLanguage(languageCode, sources).
saveSelectedSourcesForLanguage(ls, languageCode, sources) ==
    LET stored == ls.selectedNewsSourcesByLanguage
        parsed == IF stored = Null
                    THEN [ok |-> TRUE, value |-> <<>>]      \* '{}'
                    ELSE JsonParse(stored)
        data == IF parsed.ok THEN parsed.value ELSE <<>>    \* catch: data = {}
    IN [ls EXCEPT !.selectedNewsSourcesByLanguage =
            JsonStringify(AssignKey(data, languageCode, sources))]

\* setLanguage(languageCode): what it returns and the store it leaves.
setLanguage(ls, languageCode) ==
    IF Truthy(LanguagesLookup(languageCode))
      THEN [result |-> TRUE, storage |-> [ls EXCEPT !.appLanguage = Str(languageCode)]]
      ELSE [result |-> FALSE, storage |-> ls]

\* The source ids offered per language (two of the sixteen of 'en', one of
\* each other language).
SOURCE_BY_LANGUAGE ==
    [en |-> {"bbc-news", "cnn"}, pt |-> {"globo"}, es |-> {"el-pais"},
     fr |-> {"le-monde"}, de |-> {"die-zeit"}, it |-> {"la-repubblica"}]

-----------------------------------------------------------------------------
(* services/newsApi.js: cache *)

CACHE_DURATION == 5 * 60 * 1000

\* A lookup that still serves an entry whose age equals the duration.
getCachedDataInclusive(c, key, t) ==
    IF key \in DOMAIN c /\ t - c[key].timestamp <= CACHE_DURATION
      THEN c[key].data
      ELSE Null

\* getCachedData(key): the value returned, null when absent or expired.
getCachedData(c, key, t) ==
    IF key \in DOMAIN c /\ t - c[key].timestamp < CACHE_DURATION
      THEN c[key].data
      ELSE Null

\* A lookup that leaves an expired entry in the map.
cacheAfterGetKeep(c, key, t) == c

\* The cache after getCachedData(key): an expired entry is deleted.
cacheAfterGet(c, key, t) ==
    IF key \in DOMAIN c /\ ~(t - c[key].timestamp < CACHE_DURATION)
      THEN [k \in DOMAIN c \ {key} |-> c[k]]
      ELSE c

\* A store that keeps the entry a key already has.
setCachedDataKeepFirst(c, key, data, t) ==
    [k \in DOMAIN c \cup {key} |->
        IF k \in DOMAIN c THEN c[k] ELSE [data |-> data, timestamp |-> t]]

setCachedData(c, key, data, t) ==
    [k \in DOMAIN c \cup {key} |->
        IF k = key THEN [data |-> data, timestamp |-> t] ELSE c[k]]

EmptyCache == [k \in {} |-> 0]

-----------------------------------------------------------------------------
(* services/newsApi.js: validators.  A validator yields [ok |-> TRUE,      *)
(* value |-> v] or, where the code throws, [ok |-> FALSE, error |-> msg].  *)

Return(v) == [ok |-> TRUE, value |-> v]
Throw(msg) == [ok |-> FALSE, error |-> msg]

\* Characters matched by \s and removed by String.prototype.trim.
Whitespace == {" ", "\t", "\n", "\r"}

Letters ==
    {"a", "b", "c", "d", "e", "f", "g", "h", "i", "j", "k", "l", "m",
     "n", "o", "p", "q", "r", "s", "t", "u", "v", "w", "x", "y", "z",
     "A", "B", "C", "D", "E", "F", "G", "H", "I", "J", "K", "L", "M",
     "N", "O", "P", "Q", "R", "S", "T", "U", "V", "W", "X", "Y", "Z"}

Digits == {"0", "1", "2", "3", "4", "5", "6", "7", "8", "9"}

\* The character class of /^[a-zA-Z0-9\s\-.,&()'"/+:;?!]+$/.
QueryCharClass ==
    Letters \cup Digits \cup Whitespace \cup
    {"-", ".", ",", "&", "(", ")", "'", "\"", "/", "+", ":", ";", "?", "!"}

RECURSIVE TrimStart(_)
TrimStart(cs) ==
    IF cs # <<>> /\ Head(cs) \in Whitespace THEN TrimStart(Tail(cs)) ELSE cs

RECURSIVE TrimEnd(_)
TrimEnd(cs) ==
    IF cs # <<>> /\ cs[Len(cs)] \in Whitespace
      THEN TrimEnd(SubSeq(cs, 1, Len(cs) - 1))
      ELSE cs

\* String.prototype.trim
Trim(cs) == TrimEnd(TrimStart(cs))

\* The regular expression's test: one or more characters, all of the class.
QueryRegexTest(cs) ==
    cs # <<>> /\ \A i \in 1..Len(cs) : cs[i] \in QueryCharClass

\* A validator that leaves out the character test.
validateAndSanitizeQueryNoRegex(query) ==
    IF ~(query.type = "string" /\ "chars" \in DOMAIN query)
      THEN Throw("Search query must be a string")
    ELSE LET sanitized == Trim(query.chars) IN
      IF Len(sanitized) = 0 THEN Throw("Search query cannot be empty")
      ELSE IF Len(sanitized) > 500
        THEN Throw("Search query cannot exceed 500 characters")
      ELSE Return(sanitized)

validateAndSanitizeQuery(query) ==
    IF ~(query.type = "string" /\ "chars" \in DOMAIN query)
      THEN Throw("Search query must be a string")
    ELSE LET sanitized == Trim(query.chars) IN
      IF Len(sanitized) = 0 THEN Throw("Search query cannot be empty")
      ELSE IF Len(sanitized) > 500
        THEN Throw("Search query cannot exceed 500 characters")
      ELSE IF ~QueryRegexTest(sanitized)
        THEN Throw("Search contains invalid characters")
      ELSE Return(sanitized)

\* A validator whose upper limit is off by one.
validatePageNumberBelow100(page) ==
    IF page.type \in {"undefined", "null"} THEN Return(Undefined)
    ELSE LET pageNum == ParseInt(page) IN
      IF pageNum.type = "NaN" \/ pageNum.num < 1
        THEN Throw("Page number must be a positive integer")
      ELSE IF pageNum.num >= 100
        THEN Throw("Page number cannot exceed 100")
      ELSE Return(pageNum)

validatePageNumber(page) ==
    IF page.type \in {"undefined", "null"} THEN Return(Undefined)
    ELSE LET pageNum == ParseInt(page) IN
      IF pageNum.type = "NaN" \/ pageNum.num < 1
        THEN Throw("Page number must be a positive integer")
      ELSE IF pageNum.num > 100
        THEN Throw("Page number cannot exceed 100")
      ELSE Return(pageNum)

validCategories ==
    {"business", "entertainment", "general", "health", "science",
     "sports", "technology", "all"}

\* String.prototype.toLowerCase on the category strings the model draws.
ToLowerCase(s) ==
    CASE s = "Sports" -> "sports"
      [] s = "GENERAL" -> "general"
      [] OTHER -> s

validateCategory(category) ==
    IF ~Truthy(category) THEN Return(Undefined)
    ELSE IF ToLowerCase(category.str) \notin validCategories
      THEN Throw("Invalid category")
    ELSE Return(Str(ToLowerCase(category.str)))

\* Mutation of clampPageSize: the lower limit is not applied.
clampPageSizeNoFloor(pageSize) ==
    LET parsed == ParseInt(pageSize)
        n == IF Truthy(parsed) THEN parsed.num ELSE 20
    IN Min(n, 100)

\* Math.min(Math.max(parseInt(options.pageSize, 10) || 20, 1), 100)
clampPageSize(pageSize) ==
    LET parsed == ParseInt(pageSize)
        n == IF Truthy(parsed) THEN parsed.num ELSE 20
    IN Min(Max(n, 1), 100)

validSortMethods == {"relevancy", "popularity", "publishedAt"}

\* Mutation of resolveSortBy: any string given is sent as it is.
resolveSortByAnyString(sortBy) ==
    IF sortBy.type = "string" /\ sortBy.str # ""
      THEN sortBy.str
      ELSE "publishedAt"

\* validSortMethods.includes(options.sortBy) ? options.sortBy : 'publishedAt'
resolveSortBy(sortBy) ==
    IF sortBy.type = "string" /\ sortBy.str \in validSortMethods
      THEN sortBy.str
      ELSE "publishedAt"

-----------------------------------------------------------------------------
(* services/newsApi.js (cached build): building the request *)

\* options.language || getCurrentLanguage()
resolveLanguage(options, ls, nav) ==
    IF Truthy(options.language)
      THEN options.language.str
      ELSE getCurrentLanguage(ls, nav)

\* The URLSearchParams as a function from the appended names to their values
\* (each name is appended at most once and in a fixed order, so the function
\* determines params.toString()).
withPage(params, page) ==
    IF Truthy(page) THEN params @@ [page |-> page.num] ELSE params

withCategory(params, category) ==
    IF Truthy(category) /\ category.str # "all"
      THEN params @@ [category |-> category.str]
      ELSE params

\* selectedSources.join(','): the ids with a comma between neighbours.
RECURSIVE Join(_)
Join(ids) ==
    IF Len(ids) = 0 THEN <<>>
    ELSE IF Len(ids) = 1 THEN ids
    ELSE <<Head(ids), ",">> \o Join(Tail(ids))

withSources(params, selectedSources) ==
    IF Len(selectedSources) > 0
      THEN params @@ [sources |-> Join(selectedSources)]
      ELSE params

\* fetchTopHeadlines up to the cache lookup: the params, or the error thrown.
headlinesParams(options, ls, nav) ==
    LET language == resolveLanguage(options, ls, nav)
        languageConfig == LanguagesLookup(language)
        category == IF Truthy(options.category)
                      THEN validateCategory(options.category)
                      ELSE Return(Undefined)
        page == validatePageNumber(options.page)
        pageSize == clampPageSize(options.pageSize)
    IN  IF ~Truthy(languageConfig) THEN Throw("Unsupported language")
        ELSE IF ~category.ok THEN category
        ELSE IF ~page.ok THEN page
        ELSE Return(
            withSources(
                withCategory(
                    withPage([language |-> languageConfig.apiLanguage,
                              pageSize |-> pageSize], page.value),
                    category.value),
                getSelectedSourcesForLanguage(ls, language)))

\* searchNews up to the cache lookup: the params, or the error thrown.
searchParams(options, ls, nav) ==
    LET query == validateAndSanitizeQuery(options.q)
        language == resolveLanguage(options, ls, nav)
        languageConfig == LanguagesLookup(language)
        sortBy == resolveSortBy(options.sortBy)
        page == validatePageNumber(options.page)
        pageSize == clampPageSize(options.pageSize)
    IN  IF ~Truthy(options.q) THEN Throw("Search query (q) is required")
        ELSE IF ~query.ok THEN query
        ELSE IF ~Truthy(languageConfig) THEN Throw("Unsupported language")
        ELSE IF ~page.ok THEN page
        ELSE Return(
            withSources(
                withPage([q |-> query.value,
                          language |-> languageConfig.apiLanguage,
                          sortBy |-> sortBy,
                          pageSize |-> pageSize], page.value),
                getSelectedSourcesForLanguage(ls, language)))

\* The endpoint name each operation passes to buildApiUrl.
endpointOf(op) == IF op = "fetchTopHeadlines" THEN "top-headlines" ELSE "everything"

\* The prefix of the cache key of each operation.
cachePrefix(op) == IF op = "fetchTopHeadlines" THEN "top-headlines:" ELSE "search:"

\* application/x-www-form-urlencoded encoding of one character (or of one
\* source id, which holds no character that is escaped).
EncodeChar(ch) ==
    CASE ch = " " -> "+"
      [] ch = "<" -> "%3C"
      [] ch = ">" -> "%3E"
      [] ch = "\"" -> "%22"
      [] ch = "," -> "%2C"
      [] ch = "&" -> "%26"
      [] ch = "=" -> "%3D"
      [] OTHER -> ch

RECURSIVE EncodeChars(_)
EncodeChars(cs) ==
    IF Len(cs) = 0 THEN ""
    ELSE IF Len(cs) = 1 THEN EncodeChar(cs[1])
    ELSE LET half == Len(cs) \div 2 IN
         EncodeChars(SubSeq(cs, 1, half)) \o EncodeChars(SubSeq(cs, half + 1, Len(cs)))

\* The names in the order both operations append them.
ParamOrder == <<"q", "language", "sortBy", "pageSize", "page", "category", "sources">>

\* The value of a parameter as URLSearchParams writes it.
ParamValueString(params, name) ==
    CASE name \in {"q", "sources"} -> EncodeChars(params[name])
      [] name \in {"pageSize", "page"} -> ToString(params[name])
      [] OTHER -> params[name]

\* params.toString(): name=value pairs joined by '&'.
RECURSIVE ParamsToStringFrom(_, _, _)
ParamsToStringFrom(params, i, first) ==
    IF i > Len(ParamOrder) THEN ""
    ELSE IF ParamOrder[i] \notin DOMAIN params
      THEN ParamsToStringFrom(params, i + 1, first)
    ELSE (IF first THEN "" ELSE "&") \o ParamOrder[i] \o "="
            \o ParamValueString(params, ParamOrder[i])
            \o ParamsToStringFrom(params, i + 1, FALSE)

ParamsToString(params) == ParamsToStringFrom(params, 1, TRUE)

\* A key that leaves the sources filter out.
cacheKeyWithoutSources(op, params) ==
    cachePrefix(op) \o
        ParamsToString([n \in DOMAIN params \ {"sources"} |-> params[n]])

\* Mutation of cacheKey: the key is built from the language alone.
cacheKeyLanguageOnly(op, params) == "news:" \o params.language

\* `${prefix}${params.toString()}`
cacheKey(op, params) == cachePrefix(op) \o ParamsToString(params)

getHeaders == ("Content-Type" :> "application/json")

\* `${BASE_URL}?${proxyParams}` with endpoint appended to the params.
buildApiUrl(endpoint, params) ==
    [base |-> "PROXY_URL", path |-> "", query |-> params @@ [endpoint |-> endpoint]]

-----------------------------------------------------------------------------
(* services/newsApi.js (cached build): fetchWithRetry *)

\* A default of one retry too many.
RetriesFour == 3 + 1

\* The default of the retries parameter.
Retries == 3

\* A settled fetch: a response with a status (and, for 200, a JSON body), or
\* a rejection with an error message (no response received).
IsResponse(r) == r.type = "response"
ResponseOk(r) == IsResponse(r) /\ r.status >= 200 /\ r.status <= 299

handleResponseError(status) ==
    CASE status = 401 -> "Proxy authentication failed. Check backend configuration."
      [] status = 403 -> "Access denied: Backend may not have API key configured."
      [] status = 429 -> "Rate limit exceeded: Too many requests. Please try again later."
      [] status = 500 -> "Proxy server error: Backend service temporarily unavailable."
      [] OTHER -> "API Error: 404 Not Found"

\* error.message.includes('fetch') || error.message.includes('network'),
\* case-sensitive, on the messages of the model.
MessageIsNetworkError(message) ==
    message \in {"Failed to fetch",
                 "NetworkError when attempting to fetch resource."}

\* A catch branch that reports the exhaustion instead of the caught error.
catchBranchExhausted(message, i, retries) ==
    IF i = retries - 1 THEN [do |-> "throw", error |-> "Maximum retries exceeded"]
    ELSE IF MessageIsNetworkError(message)
      THEN [do |-> "wait", waitTime |-> 1000 * (i + 1)]
      ELSE [do |-> "throw", error |-> message]

\* A catch branch that waits and goes round again on every error.
catchBranchRetryAll(message, i, retries) ==
    IF i = retries - 1 THEN [do |-> "throw", error |-> message]
    ELSE [do |-> "wait", waitTime |-> 1000 * (i + 1)]

\* The catch branch of the loop body at index i.
catchBranch(message, i, retries) ==
    IF i = retries - 1 THEN [do |-> "throw", error |-> message]
    ELSE IF MessageIsNetworkError(message)
      THEN [do |-> "wait", waitTime |-> 1000 * (i + 1)]
      ELSE [do |-> "throw", error |-> message]

\* A loop body that does not go round again on a 429.
fetchWithRetryStepNo429(r, i, retries) ==
    IF ~IsResponse(r) THEN catchBranch(r.message, i, retries)
    ELSE IF ResponseOk(r) THEN [do |-> "return"]
    ELSE catchBranch(handleResponseError(r.status), i, retries)

\* One pass of the loop body at index i on the settled fetch r: return the
\* response, wait and go round again, or throw.
fetchWithRetryStep(r, i, retries) ==
    IF ~IsResponse(r) THEN catchBranch(r.message, i, retries)
    ELSE IF ResponseOk(r) THEN [do |-> "return"]
    ELSE IF r.status = 429 /\ i < retries - 1
      THEN [do |-> "wait", waitTime |-> 1000 * (i + 1)]
    ELSE catchBranch(handleResponseError(r.status), i, retries)

-----------------------------------------------------------------------------
(* The environment: what callers pass and what the network answers *)

NoOptions ==
    [category |-> Undefined, language |-> Undefined, page |-> Undefined,
     pageSize |-> Undefined, q |-> Undefined, sortBy |-> Undefined]

Headlines(options) == [op |-> "fetchTopHeadlines", options |-> options]
Search(options) == [op |-> "searchNews", options |-> options]

\* 'test'
QueryTest == Chars(<<"t", "e", "s", "t">>)
\* 'a'.repeat(n)
RepeatA(n) == [i \in 1..n |-> "a"]

\* Calls of the service scenario: two operations on coinciding parameters, and
\* an invalid call.
ServiceInputs ==
    { Headlines(NoOptions),
      Search([NoOptions EXCEPT !.q = QueryTest]),
      Headlines([NoOptions EXCEPT !.page = Num(0)]) }

\* Calls of the retry scenario.
RetryInputs ==
    { Headlines(NoOptions), Search([NoOptions EXCEPT !.q = QueryTest]) }

\* Calls of the validation scenario: one option varied at a time.
ValidationInputs ==
    { Headlines(NoOptions),
      Headlines([NoOptions EXCEPT !.category = Str("general")]),
      Headlines([NoOptions EXCEPT !.category = Str("invalid")]),
      Headlines([NoOptions EXCEPT !.page = Num(0)]),
      Headlines([NoOptions EXCEPT !.language = Str("pt")]),
      Headlines([NoOptions EXCEPT !.language = Str("xx")]),
      Headlines([NoOptions EXCEPT !.language = Str("toString")]),
      Search([NoOptions EXCEPT !.q = QueryTest]),
      Search(NoOptions),
      Search([NoOptions EXCEPT !.q = Chars(<<"<", "b", ">">>)]) }

\* Calls of the page scenario: every page around the accepted range.
MinPage == 0 - 2
MaxPage == 103
PageInputs ==
    { Headlines([NoOptions EXCEPT !.page = p]) :
        p \in {Num(n) : n \in MinPage..MaxPage} \cup {Undefined, Null, Str("abc")} }

\* Calls of the query scenario: every string up to MaxQueryLen over a small
\* alphabet, and strings around the length limit.
QueryAlphabet == {"a", " ", "<", "\""}
QueryStrings ==
    UNION { [1..n -> QueryAlphabet] : n \in 0..MaxQueryLen }
    \cup { RepeatA(500), RepeatA(501), RepeatA(499) \o <<" ", " ">>,
           <<" ">> \o RepeatA(501), <<"<", "s", "c", "r", "i", "p", "t", ">">> }
QueryInputs ==
    { Search([NoOptions EXCEPT !.q = Chars(cs)]) : cs \in QueryStrings }
    \cup { Search(NoOptions), Search([NoOptions EXCEPT !.q = Num(5)]),
           Search([NoOptions EXCEPT !.q = Num(0)]) }

\* Calls of the dual-mode scenario.
DualInputs ==
    { Headlines(NoOptions),
      Headlines([NoOptions EXCEPT !.page = Num(1)]),
      Headlines([NoOptions EXCEPT !.page = Num(0)]),
      Search([NoOptions EXCEPT !.q = QueryTest]),
      Search([NoOptions EXCEPT !.q = Chars(<<"a", " ", "\"", "b", "\"">>)]),
      Search([NoOptions EXCEPT !.q = Chars(<<"\"", "a">>)]) }

\* Calls of the preferences scenario: each operation, for the current
\* language and for a language named by the caller.
PrefInputs ==
    { Headlines(NoOptions),
      Headlines([NoOptions EXCEPT !.language = Str("pt")]),
      Headlines([NoOptions EXCEPT !.language = Str("fr")]),
      Search([NoOptions EXCEPT !.q = QueryTest]),
      Search([NoOptions EXCEPT !.q = QueryTest, !.language = Str("en")]) }

\* Calls of the page-size scenario: every whole page size around the accepted
\* range, and values that are not numbers.
MinPageSize == 0 - 2
MaxPageSize == 102
PageSizeInputs ==
    { [op |-> op, options |-> [NoOptions EXCEPT !.q = QueryTest, !.pageSize = ps]] :
        op \in {"fetchTopHeadlines", "searchNews"},
        ps \in {Num(n) : n \in MinPageSize..MaxPageSize}
                 \cup {Undefined, Null, NaN, Str("abc"), Str("50"), Str("150"),
                       Str("7up")} }

\* Calls of the sort scenario: each accepted sortBy and values that are not.
SortInputs ==
    { Search([NoOptions EXCEPT !.q = QueryTest, !.sortBy = sb]) :
        sb \in {Undefined, Null, Num(1), Str("relevancy"), Str("popularity"),
                 Str("publishedAt"), Str("newest"), Str("RELEVANCY"), Str("")} }

\* What two components ask for at the same time.
ConcurrentInputs ==
    { Headlines(NoOptions), Headlines([NoOptions EXCEPT !.page = Num(2)]) }

\* Calls that take the language and the sources from the preferences.
PrefChangeInputs ==
    { Headlines(NoOptions), Search([NoOptions EXCEPT !.q = QueryTest]) }

Inputs(sc) ==
    CASE sc \in {"service", "envelope"} -> ServiceInputs
      [] sc = "prefchange" -> PrefChangeInputs
      [] sc = "concurrent" -> ConcurrentInputs
      [] sc = "pagesizes" -> PageSizeInputs
      [] sc = "sorts" -> SortInputs
      [] sc = "prefs" -> PrefInputs
      [] sc = "retry" -> RetryInputs
      [] sc = "validation" -> ValidationInputs
      [] sc = "pages" -> PageInputs
      [] sc = "queries" -> QueryInputs
      [] sc = "dual" -> DualInputs
      [] OTHER -> {}

\* JSON bodies of a 200 answer.
PayloadA == [type |-> "object", status |-> "ok", totalResults |-> 10, articles |-> 2]
PayloadB == [type |-> "object", status |-> "ok", totalResults |-> 250, articles |-> 3]

\* The body the upstream API sends for an error of its own.
PayloadUpstreamError ==
    [type |-> "object", status |-> "error", code |-> "unexpectedError",
     message |-> "This is most likely our fault."]

\* A 200 body without an articles member.
PayloadNoArticles == [type |-> "object", status |-> "ok"]

Response(status) == [type |-> "response", status |-> status]
Ok200(body) == [type |-> "response", status |-> 200, body |-> body]
NetworkError(message) == [type |-> "error", message |-> message]

\* What a fetch may settle with.
RetryResponses ==
    { Ok200(PayloadA), Ok200(PayloadB),
      Response(401), Response(403), Response(429), Response(500), Response(404),
      NetworkError("Failed to fetch"), NetworkError("Network error") }

Responses(sc) ==
    CASE sc = "retry" -> RetryResponses
      [] sc = "service" -> { Ok200(PayloadA), Ok200(PayloadB), Response(429), Response(401) }
      [] sc \in {"prefs", "pagesizes"} -> { Ok200(PayloadA), Response(429) }
      [] sc = "concurrent" -> { Ok200(PayloadA), Ok200(PayloadB), Response(401) }
      [] sc = "prefchange" -> { Ok200(PayloadA) }
      [] sc = "overlap" -> { Ok200(PayloadA), Ok200(PayloadB), Response(401) }
      [] sc = "envelope" -> { Ok200(PayloadA), Ok200(PayloadUpstreamError),
                              Response(429), Response(500) }
      [] sc = "home" -> { Ok200(PayloadA), Ok200(PayloadB), Ok200(PayloadNoArticles),
                          Response(429), Response(401) }
      [] OTHER -> { Ok200(PayloadA), Response(429), Response(401),
                    NetworkError("Failed to fetch") }

\* Calls a behaviour of the scenario starts.
CallBudget(sc) == IF sc \in {"service", "dual", "home", "envelope", "concurrent", "prefchange",
                 "overlap"}
        THEN MaxCalls ELSE 1

\* The granularity of the clock: the steps by which it advances between
\* events.  A timer fires at the first instant of the clock at or after its time.
TickSteps == { CACHE_DURATION \div 2 }

-----------------------------------------------------------------------------
(* State *)

CallIds == {1}

IdleCall ==
    [pc |-> "idle", op |-> "none", options |-> NoOptions, valid |-> FALSE,
     key |-> "", request |-> Null, i |-> 0, wakeAt |-> 0, body |-> Null,
     outcome |-> Null,
     \* history of the call
     reqs |-> 0, resps |-> <<>>, hit |-> FALSE, startedAt |-> 0,
     prior |-> Null, settled |-> 0, clearedInFlight |-> FALSE, overlaps |-> {}]

Resolved(value) == [type |-> "resolved", value |-> value]
\* Mutation of Rejected: the error is returned as a value instead of thrown.
RejectedAsValue(message) ==
    [type |-> "resolved", value |-> [status |-> "error", message |-> message]]
Rejected(message) == [type |-> "rejected", error |-> message]

EmptyStorage ==
    [appLanguage |-> Null, selectedNewsSourcesByLanguage |-> Null,
     language |-> Null, darkMode |-> Null]

StoredSelections ==
    { Null,
      [type |-> "json", data |-> [en |-> <<"bbc-news">>, pt |-> <<>>]] }

UnmountedView == [mounted |-> FALSE, currentLanguage |-> "en", selectedSources |-> <<>>]

\* The history starts from what the store holds.
InitHistory ==
    lastSaved = [L \in DOMAIN LANGUAGES |->
                    getSelectedSourcesForLanguage(localStorage, L)]

\* The refs of the home view as the component is set up.  pending holds the
\* calls on which an invocation of loadArticles is suspended; awaiting is the
\* call of the most recent invocation while it is suspended (0: none), and
\* latestResult what that invocation displayed when it resumed.
HomeViewSetup ==
    [mounted |-> FALSE, articles |-> 0, isLoading |-> FALSE, error |-> Null,
     currentPage |-> 1, totalResults |-> 0, isSearching |-> FALSE,
     searchQuery |-> Chars(<<>>), awaiting |-> 0, pending |-> {},
     latestResult |-> Null]

\* No invocation of the handler is in progress.
ProxyIdle == [pc |-> "idle"]

TabIds == {1, 2}

\* A tab after initializeSettings on an empty store, in a browser that
\* prefers the light scheme and English.
TabLoaded ==
    [isDarkMode |-> FALSE, htmlDark |-> FALSE, currentLanguage |-> "en",
     queue |-> <<>>, last |-> Null]

\* The state at load apart from the calls in progress.
InitShared ==
    /\ settingsView = UnmountedView
    /\ tabs = [t \in TabIds |-> TabLoaded]
    /\ userOps = 0
    /\ proxy = ProxyIdle
    /\ homeView = HomeViewSetup
    /\ now = 0
    /\ cache = EmptyCache
    /\ lastSuccess = EmptyCache
    /\ started = 0

InitCommon ==
    /\ InitShared
    /\ calls = [c \in CallIds |-> IdleCall]

\* The cached build in a browser whose store holds what earlier sessions left.
InitCached(sc) ==
    /\ InitCommon
    /\ scenario = sc
    /\ config = [build |-> "cached", VUE_APP_VERCEL_API_URL |-> Undefined,
                 VUE_APP_NEWS_API_KEY |-> Undefined]
    /\ localStorage \in
         { [EmptyStorage EXCEPT !.selectedNewsSourcesByLanguage = sel] :
             sel \in StoredSelections }
    /\ navigatorLanguage = "EN-us"
    /\ InitHistory

Init == InitCached("service")
RetryInit == InitCached("retry")
ValidationInit == InitCached("validation")
PageInit == InitCached("pages")
QueryInit == InitCached("queries")
PageSizeInit == InitCached("pagesizes")
SortInit == InitCached("sorts")
EnvelopeInit == InitCached("envelope")

\* Two components of the page call the service independently.
ConcurrentCallIds == {1, 2}

ConcurrentInit ==
    /\ InitShared
    /\ calls = [c \in ConcurrentCallIds |-> IdleCall]
    /\ scenario = "concurrent"
    /\ config = [build |-> "cached", VUE_APP_VERCEL_API_URL |-> Undefined,
                 VUE_APP_NEWS_API_KEY |-> Undefined]
    /\ localStorage = EmptyStorage
    /\ navigatorLanguage = "EN-us"
    /\ InitHistory

-----------------------------------------------------------------------------
(* services/newsApi.js (cached build): fetchTopHeadlines and searchNews *)

paramsOf(op, options, ls, nav) ==
    IF op = "fetchTopHeadlines"
      THEN headlinesParams(options, ls, nav)
      ELSE searchParams(options, ls, nav)

\* The key the call would compute under the preferences ls holds.
KeyUnder(call, ls, nav) ==
    LET prep == paramsOf(call.op, call.options, ls, nav) IN
    IF prep.ok THEN cacheKey(call.op, prep.value) ELSE ""

\* The call is made: the function runs to its first await.  It throws on an
\* invalid input, returns the cached payload on a hit, and otherwise builds
\* the request and enters fetchWithRetry, whose first fetch is issued.
StartCall(c, input) ==
    /\ config.build = "cached"
    /\ calls[c].pc \in {"idle", "done"}
    /\ started < CallBudget(scenario)
    /\ now <= MaxNow
    /\ started' = started + 1
    /\ LET prep == paramsOf(input.op, input.options, localStorage, navigatorLanguage)
           base == [IdleCall EXCEPT !.op = input.op, !.options = input.options,
                                    !.startedAt = now]
       IN IF ~prep.ok
            THEN /\ calls' = [calls EXCEPT ![c] =
                        [base EXCEPT !.pc = "done", !.outcome = Rejected(prep.error),
                                     !.settled = 1]]
                 /\ cache' = cache
          ELSE
            LET key == cacheKey(input.op, prep.value)
                cachedData == getCachedData(cache, key, now)
                keyed == [base EXCEPT !.valid = TRUE, !.key = key,
                            !.prior = IF key \in DOMAIN lastSuccess
                                        THEN lastSuccess[key] ELSE Null,
                            !.overlaps =
                                {d \in DOMAIN calls \ {c} :
                                    /\ calls[d].pc \in {"fetching", "backoff", "json"}
                                    /\ calls[d].key = key}]
            IN /\ cache' = cacheAfterGet(cache, key, now)
               /\ IF Truthy(cachedData)
                    THEN calls' = [calls EXCEPT ![c] =
                            [keyed EXCEPT !.pc = "done", !.hit = TRUE,
                                          !.outcome = Resolved(cachedData),
                                          !.settled = 1]]
                    ELSE calls' = [calls EXCEPT ![c] =
                            [keyed EXCEPT !.pc = "fetching", !.i = 0, !.reqs = 1,
                                !.request =
                                    [url |-> buildApiUrl(endpointOf(input.op), prep.value),
                                     headers |-> getHeaders]]]
    /\ UNCHANGED <<scenario, now, localStorage, navigatorLanguage, config, lastSuccess>>

\* A call made by a caller that keeps no state of its own.
Start(c, input) == StartCall(c, input) /\ UNCHANGED uiVars

\* The pending fetch of call c settles with r, and the loop body of
\* fetchWithRetry runs on it.
Respond(c, r) ==
    /\ calls[c].pc = "fetching"
    /\ config.build = "cached"
    /\ LET step == fetchWithRetryStep(r, calls[c].i, Retries)
           seen == [calls[c] EXCEPT !.resps = Append(@, r)]
       IN calls' = [calls EXCEPT ![c] =
            CASE step.do = "return" -> [seen EXCEPT !.pc = "json", !.body = r.body]
              [] step.do = "wait" ->
                    [seen EXCEPT !.pc = "backoff", !.wakeAt = now + step.waitTime]
              [] OTHER ->
                    [seen EXCEPT !.pc = "done", !.outcome = Rejected(step.error),
                                 !.settled = @ + 1]]
    /\ UNCHANGED <<uiVars, scenario, now, cache, localStorage, navigatorLanguage, config,
                   started, lastSuccess>>

\* The backoff timer of call c fires (no earlier than wakeAt): the loop goes
\* round, and issues the next fetch while i < retries.
Wake(c) ==
    /\ calls[c].pc = "backoff"
    /\ now >= calls[c].wakeAt
    /\ calls' = [calls EXCEPT ![c] =
            IF calls[c].i + 1 < Retries
              THEN [@ EXCEPT !.pc = "fetching", !.i = @ + 1, !.reqs = @ + 1,
                             !.clearedInFlight = FALSE]
              ELSE \* the loop ends without a response: response.json() throws
                   [@ EXCEPT !.pc = "done", !.i = @ + 1, !.settled = @ + 1,
                             !.outcome = Rejected("TypeError")]]
    /\ UNCHANGED <<uiVars, scenario, now, cache, localStorage, navigatorLanguage, config,
                   started, lastSuccess>>

\* response.json() resolves: the data is cached and returned.
Json(c) ==
    /\ calls[c].pc = "json"
    /\ config.build = "cached"
    /\ LET data == calls[c].body IN
        /\ cache' = setCachedData(cache, calls[c].key, data, now)
        /\ lastSuccess' = [k \in DOMAIN lastSuccess \cup {calls[c].key} |->
                              IF k = calls[c].key
                                THEN [data |-> data, at |-> now, op |-> calls[c].op,
                                      by |-> c, request |-> calls[c].request,
                                      acrossClear |-> calls[c].clearedInFlight,
                                      keyAtStore |-> KeyUnder(calls[c], localStorage,
                                                              navigatorLanguage)]
                                ELSE lastSuccess[k]]
        /\ calls' = [calls EXCEPT ![c] =
                [@ EXCEPT !.pc = "done", !.outcome = Resolved(data), !.settled = @ + 1]]
    /\ UNCHANGED <<uiVars, scenario, now, localStorage, navigatorLanguage, config, started>>

\* clearCache(): the map is emptied.  The history notes the calls whose
\* request is in flight at this moment.
clearCache ==
    /\ config.build = "cached"
    /\ cache' = EmptyCache
    /\ lastSuccess' = EmptyCache
    /\ calls' = [c \in DOMAIN calls |->
                    IF calls[c].pc \in {"fetching", "json"}
                      THEN [calls[c] EXCEPT !.clearedInFlight = TRUE]
                      ELSE calls[c]]
    /\ UNCHANGED <<uiVars, scenario, now, localStorage, navigatorLanguage, config, started>>

\* Time passes.
TimerPending == \E c \in DOMAIN calls : calls[c].pc = "backoff" /\ calls[c].wakeAt > now

Tick(d) ==
    /\ now + d <= MaxNow \/ TimerPending
    /\ now' = now + d
    /\ UNCHANGED <<uiVars, scenario, cache, localStorage, navigatorLanguage, config, calls,
                   started, lastSuccess>>

Next ==
    \/ \E c \in DOMAIN calls : \E input \in Inputs(scenario) : Start(c, input)
    \/ \E c \in DOMAIN calls : \E r \in Responses(scenario) : Respond(c, r)
    \/ \E c \in DOMAIN calls : Wake(c)
    \/ \E c \in DOMAIN calls : Json(c)
    \/ clearCache
    \/ \E d \in TickSteps : Tick(d)

Spec == Init /\ [][Next]_vars
RetrySpec == RetryInit /\ [][Next]_vars
ValidationSpec == ValidationInit /\ [][Next]_vars
PageSpec == PageInit /\ [][Next]_vars
QuerySpec == QueryInit /\ [][Next]_vars
PageSizeSpec == PageSizeInit /\ [][Next]_vars
SortSpec == SortInit /\ [][Next]_vars
\* The upstream may report an error of its own inside a 200 answer.
EnvelopeSpec == EnvelopeInit /\ [][Next]_vars

\* The calls of the two components interleave at their awaits; the clock
\* stands still while they do.
ConcurrentNext ==
    \/ \E c \in DOMAIN calls : \E input \in Inputs(scenario) : Start(c, input)
    \/ \E c \in DOMAIN calls : \E r \in Responses(scenario) : Respond(c, r)
    \/ \E c \in DOMAIN calls : Json(c)

ConcurrentSpec == ConcurrentInit /\ [][ConcurrentNext]_vars

-----------------------------------------------------------------------------
(* services/newsApi.js (dual-mode build): direct calls or the proxy *)

API_KEY(cfg) == cfg.VUE_APP_NEWS_API_KEY
USE_PROXY(cfg) == Truthy(cfg.VUE_APP_VERCEL_API_URL)
BASE_URL(cfg) ==
    IF Truthy(cfg.VUE_APP_VERCEL_API_URL)
      THEN cfg.VUE_APP_VERCEL_API_URL.str
      ELSE "https://newsapi.org/v2"

\* The classes of /^[a-zA-Z0-9\s\-.,&()']+([\s][a-zA-Z0-9\-.,&()"']+)*$/.
Dual_FirstClass ==
    Letters \cup Digits \cup Whitespace \cup {"-", ".", ",", "&", "(", ")", "'"}
Dual_WordClass ==
    Letters \cup Digits \cup {"-", ".", ",", "&", "(", ")", "\"", "'"}

\* ([\s][a-zA-Z0-9\-.,&()"']+)* matches the whole of cs.
RECURSIVE Dual_WordsMatch(_)
Dual_WordsMatch(cs) ==
    \/ cs = <<>>
    \/ /\ Len(cs) >= 2
       /\ cs[1] \in Whitespace
       /\ \E m \in 2..Len(cs) :
            /\ \A i \in 2..m : cs[i] \in Dual_WordClass
            /\ Dual_WordsMatch(SubSeq(cs, m + 1, Len(cs)))

Dual_QueryRegexTest(cs) ==
    \E k \in 1..Len(cs) :
        /\ \A i \in 1..k : cs[i] \in Dual_FirstClass
        /\ Dual_WordsMatch(SubSeq(cs, k + 1, Len(cs)))

Dual_validateAndSanitizeQuery(query) ==
    IF ~(query.type = "string" /\ "chars" \in DOMAIN query)
      THEN Throw("Search query must be a string")
    ELSE LET sanitized == Trim(query.chars) IN
      IF Len(sanitized) = 0 THEN Throw("Search query cannot be empty")
      ELSE IF Len(sanitized) > 500
        THEN Throw("Search query cannot exceed 500 characters")
      ELSE IF ~Dual_QueryRegexTest(sanitized)
        THEN Throw("Search contains invalid characters")
      ELSE Return(sanitized)

\* searchNews up to the request: the params, or the error thrown.
Dual_searchParams(options, ls, nav) ==
    LET query == Dual_validateAndSanitizeQuery(options.q)
        language == resolveLanguage(options, ls, nav)
        languageConfig == LanguagesLookup(language)
        sortBy == resolveSortBy(options.sortBy)
        page == validatePageNumber(options.page)
        pageSize == clampPageSize(options.pageSize)
    IN  IF ~Truthy(options.q) THEN Throw("Search query (q) is required")
        ELSE IF ~query.ok THEN query
        ELSE IF ~Truthy(languageConfig) THEN Throw("Unsupported language")
        ELSE IF ~page.ok THEN page
        ELSE Return(
            withSources(
                withPage([q |-> query.value,
                          language |-> languageConfig.apiLanguage,
                          sortBy |-> sortBy,
                          pageSize |-> pageSize], page.value),
                getSelectedSourcesForLanguage(ls, language)))

\* Headers that carry the key whenever one is configured.
Dual_getHeadersAlwaysKey(cfg) ==
    IF Truthy(API_KEY(cfg))
      THEN ("Content-Type" :> "application/json") @@ ("X-Api-Key" :> API_KEY(cfg).str)
      ELSE ("Content-Type" :> "application/json")

Dual_getHeaders(cfg) ==
    IF ~USE_PROXY(cfg) /\ Truthy(API_KEY(cfg))
      THEN ("Content-Type" :> "application/json") @@ ("X-Api-Key" :> API_KEY(cfg).str)
      ELSE ("Content-Type" :> "application/json")

Dual_buildApiUrl(cfg, endpoint, params) ==
    IF USE_PROXY(cfg)
      THEN [base |-> BASE_URL(cfg), path |-> "", query |-> params]
      ELSE [base |-> BASE_URL(cfg), path |-> endpoint, query |-> params]

Dual_handleResponseError(status) ==
    CASE status = 401 -> "Authentication failed: Invalid API key. Check your VUE_APP_NEWS_API_KEY environment variable."
      [] status = 403 -> "Access denied: Your API key may not have permission for this endpoint."
      [] status = 429 -> "Rate limit exceeded: Too many requests. Please try again later."
      [] status = 500 -> "Server error: The API service is temporarily unavailable."
      [] OTHER -> "API Error: 404 Not Found"

\* The call is made: the function validates, builds the request and issues
\* the fetch.
DualStart(c, input) ==
    /\ config.build = "dual"
    /\ calls[c].pc \in {"idle", "done"}
    /\ started < CallBudget(scenario)
    /\ started' = started + 1
    /\ LET prep == IF input.op = "fetchTopHeadlines"
                     THEN headlinesParams(input.options, localStorage, navigatorLanguage)
                     ELSE Dual_searchParams(input.options, localStorage, navigatorLanguage)
           base == [IdleCall EXCEPT !.op = input.op, !.options = input.options,
                                    !.startedAt = now]
       IN calls' = [calls EXCEPT ![c] =
            IF ~prep.ok
              THEN [base EXCEPT !.pc = "done", !.outcome = Rejected(prep.error),
                                !.settled = 1]
              ELSE [base EXCEPT !.pc = "fetching", !.valid = TRUE, !.reqs = 1,
                        !.request =
                            [url |-> Dual_buildApiUrl(config, endpointOf(input.op), prep.value),
                             headers |-> Dual_getHeaders(config)]]]
    /\ UNCHANGED <<uiVars, scenario, now, cache, localStorage, navigatorLanguage, config,
                   lastSuccess>>

\* The fetch settles: the error is thrown on, or the body is awaited.
DualRespond(c, r) ==
    /\ config.build = "dual"
    /\ calls[c].pc = "fetching"
    /\ LET seen == [calls[c] EXCEPT !.resps = Append(@, r)] IN
       calls' = [calls EXCEPT ![c] =
            IF ~IsResponse(r)
              THEN [seen EXCEPT !.pc = "done", !.outcome = Rejected(r.message),
                                !.settled = @ + 1]
            ELSE IF ~ResponseOk(r)
              THEN [seen EXCEPT !.pc = "done", !.settled = @ + 1,
                        !.outcome = Rejected(Dual_handleResponseError(r.status))]
            ELSE [seen EXCEPT !.pc = "json", !.body = r.body]]
    /\ UNCHANGED <<uiVars, scenario, now, cache, localStorage, navigatorLanguage, config,
                   started, lastSuccess>>

\* response.json() resolves: the data is returned.
DualJson(c) ==
    /\ config.build = "dual"
    /\ calls[c].pc = "json"
    /\ calls' = [calls EXCEPT ![c] =
            [@ EXCEPT !.pc = "done", !.outcome = Resolved(calls[c].body),
                      !.settled = @ + 1]]
    /\ UNCHANGED <<uiVars, scenario, now, cache, localStorage, navigatorLanguage, config,
                   started, lastSuccess>>

DualNext ==
    \/ \E c \in CallIds : \E input \in Inputs(scenario) : DualStart(c, input)
    \/ \E c \in CallIds : \E r \in Responses(scenario) : DualRespond(c, r)
    \/ \E c \in CallIds : DualJson(c)

\* The environment values of a build.
EnvUrls == {Undefined, Str("https://proxy.example/api")}
EnvKeys == {Undefined, Str("secret-key")}

DualInit ==
    /\ InitCommon
    /\ scenario = "dual"
    /\ config \in
         { [build |-> "dual", VUE_APP_VERCEL_API_URL |-> u, VUE_APP_NEWS_API_KEY |-> k] :
             u \in EnvUrls, k \in EnvKeys }
    /\ localStorage \in
         { [EmptyStorage EXCEPT !.selectedNewsSourcesByLanguage = sel] :
             sel \in StoredSelections }
    /\ navigatorLanguage = "EN-us"
    /\ InitHistory

DualSpec == DualInit /\ [][DualNext]_vars

\* Either build, the cached one with the key present in its environment.
ModeInit ==
    \/ DualInit
    \/ /\ InitCommon
       /\ scenario = "retry"
       /\ config \in
            { [build |-> "cached", VUE_APP_VERCEL_API_URL |-> u,
               VUE_APP_NEWS_API_KEY |-> k] : u \in EnvUrls, k \in EnvKeys }
       /\ localStorage = EmptyStorage
       /\ navigatorLanguage = "EN-us"
       /\ InitHistory

ModeSpec == ModeInit /\ [][Next \/ DualNext]_vars

FairRetrySpec ==
    /\ RetrySpec
    /\ \A c \in CallIds :
        /\ WF_vars(\E r \in Responses(scenario) : Respond(c, r))
        /\ WF_vars(Wake(c))
        /\ WF_vars(Json(c))
    /\ WF_vars(\E d \in TickSteps : Tick(d))

-----------------------------------------------------------------------------
(* components/settings.vue and the source preferences *)

\* What the store may hold when the page loads.
PrefStoredSelections ==
    { Null,
      [type |-> "malformed"],
      [type |-> "json", data |-> [en |-> <<"bbc-news">>, pt |-> <<>>]],
      [type |-> "json", data |-> [en |-> <<"cnn", "bbc-news">>, pt |-> <<"globo">>]] }

\* Direct calls of saveSelectedSourcesForLanguage.
SaveInputs ==
    { [languageCode |-> "en", sources |-> <<>>],
      [languageCode |-> "pt", sources |-> <<"globo">>],
      [languageCode |-> "fr", sources |-> <<"le-monde">>] }

\* Codes passed to setLanguage.
LanguageCodes == {"en", "pt", "xx"}

\* A checkbox bound to the array with v-model: checking appends the id,
\* unchecking removes it.
ToggleId(ids, id) ==
    IF \E i \in 1..Len(ids) : ids[i] = id
      THEN SelectSeq(ids, LAMBDA x : x # id)
      ELSE Append(ids, id)

\* saveSelectedSourcesForLanguage(languageCode, sources) is called.
SaveSelected(languageCode, sources) ==
    /\ config.build = "cached"
    /\ localStorage' = saveSelectedSourcesForLanguage(localStorage, languageCode, sources)
    /\ lastSaved' = [lastSaved EXCEPT ![languageCode] = sources]
    /\ UNCHANGED <<scenario, now, cache, navigatorLanguage, config, calls, started,
                   lastSuccess, settingsView, homeView, proxy, tabVars>>

\* setLanguage(code) is called.
CallSetLanguage(code) ==
    /\ config.build = "cached"
    /\ localStorage' = setLanguage(localStorage, code).storage
    /\ UNCHANGED <<scenario, now, cache, navigatorLanguage, config, calls, started,
                   lastSuccess, uiVars>>

\* The settings page is mounted: onMounted loads the language and its
\* selection, and the watchers then run; the language watcher finds the
\* persisted language equal to the new one and reloads the selection, the
\* selection watcher saves it.
SettingsMounted ==
    /\ config.build = "cached"
    /\ ~settingsView.mounted
    /\ LET current == getCurrentLanguage(localStorage, navigatorLanguage)
           selected == getSelectedSourcesForLanguage(localStorage, current)
       IN /\ settingsView' = [mounted |-> TRUE, currentLanguage |-> current,
                              selectedSources |-> selected]
          /\ localStorage' = saveSelectedSourcesForLanguage(localStorage, current, selected)
          /\ lastSaved' = [lastSaved EXCEPT ![current] = selected]
    /\ UNCHANGED <<scenario, now, cache, navigatorLanguage, config, calls, started,
                   lastSuccess, homeView, proxy, tabVars>>

\* A source checkbox is clicked; the selection watcher saves the new array.
SettingsToggleSource(id) ==
    /\ settingsView.mounted
    /\ id \in SOURCE_BY_LANGUAGE[settingsView.currentLanguage]
    /\ LET newSources == ToggleId(settingsView.selectedSources, id) IN
        /\ settingsView' = [settingsView EXCEPT !.selectedSources = newSources]
        /\ localStorage' = saveSelectedSourcesForLanguage(
                                localStorage, settingsView.currentLanguage, newSources)
        /\ lastSaved' = [lastSaved EXCEPT ![settingsView.currentLanguage] = newSources]
    /\ UNCHANGED <<scenario, now, cache, navigatorLanguage, config, calls, started,
                   lastSuccess, homeView, proxy, tabVars>>

\* "Clear All" (shown while something is selected); the watcher saves again.
clearAllSources ==
    /\ settingsView.mounted
    /\ Len(settingsView.selectedSources) > 0
    /\ settingsView' = [settingsView EXCEPT !.selectedSources = <<>>]
    /\ localStorage' = saveSelectedSourcesForLanguage(
                            saveSelectedSourcesForLanguage(
                                localStorage, settingsView.currentLanguage, <<>>),
                            settingsView.currentLanguage, <<>>)
    /\ lastSaved' = [lastSaved EXCEPT ![settingsView.currentLanguage] = <<>>]
    /\ UNCHANGED <<scenario, now, cache, navigatorLanguage, config, calls, started,
                   lastSuccess, homeView, proxy, tabVars>>

\* The user leaves the settings page.
SettingsUnmounted ==
    /\ settingsView.mounted
    /\ settingsView' = UnmountedView
    /\ UNCHANGED <<scenario, now, cache, localStorage, navigatorLanguage, config, calls,
                   started, lastSuccess, lastSaved, homeView, proxy, tabVars>>

\* The exported operations of languages.js that write the store.
SelectionNext ==
    \/ \E input \in SaveInputs : SaveSelected(input.languageCode, input.sources)
    \/ \E code \in LanguageCodes : CallSetLanguage(code)

\* The settings page, and the operations other code may call meanwhile.
SettingsNext ==
    \/ SelectionNext
    \/ SettingsMounted
    \/ \E id \in UNION {SOURCE_BY_LANGUAGE[L] : L \in DOMAIN SOURCE_BY_LANGUAGE} :
            SettingsToggleSource(id)
    \/ clearAllSources
    \/ SettingsUnmounted

PrefInit ==
    /\ InitCommon
    /\ scenario = "prefs"
    /\ config = [build |-> "cached", VUE_APP_VERCEL_API_URL |-> Undefined,
                 VUE_APP_NEWS_API_KEY |-> Undefined]
    /\ localStorage \in
         { [EmptyStorage EXCEPT !.selectedNewsSourcesByLanguage = sel] :
             sel \in PrefStoredSelections }
    /\ navigatorLanguage = "EN-us"
    /\ InitHistory

\* The selections the user saves meanwhile.
PrefChanges ==
    { [languageCode |-> "en", sources |-> <<"cnn">>],
      [languageCode |-> "pt", sources |-> <<"globo">>] }

\* Calls made one after another while the user changes the language and the
\* selection, also between the request and its answer.
PrefChangeNext ==
    \/ \E c \in DOMAIN calls : \E input \in Inputs(scenario) : Start(c, input)
    \/ \E c \in DOMAIN calls : \E r \in Responses(scenario) : Respond(c, r)
    \/ \E c \in DOMAIN calls : Json(c)
    \/ \E input \in PrefChanges : SaveSelected(input.languageCode, input.sources)
    \/ \E code \in {"en", "pt"} : CallSetLanguage(code)

PrefChangeInit == InitCached("prefchange")
PrefChangeSpec == PrefChangeInit /\ [][PrefChangeNext]_vars

\* Requests made while the preferences change.
SourcesSpec == PrefInit /\ [][Next \/ SelectionNext]_vars
\* The settings page alone.
SettingsSpec == PrefInit /\ [][SettingsNext]_vars

-----------------------------------------------------------------------------
(* The home view: loadArticles and the handlers that call it.  Each          *)
(* invocation of loadArticles is suspended on a call of its own.             *)

HomePageSize == Num(20)

\* Math.ceil(totalResults.value / pageSize)
totalPages(view) == (view.totalResults + 19) \div 20

\* The call loadArticles makes for the refs of the view.
HomeRequest(view) ==
    IF view.isSearching /\ Truthy(Chars(Trim(view.searchQuery.chars)))
      THEN Search([NoOptions EXCEPT !.q = view.searchQuery,
                                    !.sortBy = Str("relevancy"),
                                    !.page = Num(view.currentPage),
                                    !.pageSize = HomePageSize])
      ELSE Headlines([NoOptions EXCEPT !.page = Num(view.currentPage),
                                       !.pageSize = HomePageSize])

\* data.totalResults || 0
TotalOrZero(data) ==
    IF "totalResults" \in DOMAIN data /\ data.totalResults # 0
      THEN data.totalResults ELSE 0

\* Mutation of HomeShowData: the total is kept as the server reported it.
HomeShowDataUnclamped(view, data) ==
    IF "articles" \in DOMAIN data
      THEN [view EXCEPT !.articles = data.articles,
                        !.totalResults = TotalOrZero(data)]
      ELSE view

\* if (data.articles) { articles.value = ...; totalResults.value = Math.min(..., 100) }
HomeShowData(view, data) ==
    IF "articles" \in DOMAIN data
      THEN [view EXCEPT !.articles = data.articles,
                        !.totalResults = Min(TotalOrZero(data), 100)]
      ELSE view

\* loadArticles up to its await: the refs are set and the call is made.
loadArticles(c, view) ==
    /\ c \notin homeView.pending
    /\ StartCall(c, HomeRequest(view))
    /\ homeView' = [view EXCEPT !.isLoading = TRUE, !.error = Null, !.awaiting = c,
                                !.pending = @ \cup {c}, !.latestResult = Null]
    /\ UNCHANGED <<settingsView, proxy, tabVars, lastSaved>>

\* loadArticles after its await: the data is shown or the error is kept,
\* and isLoading is reset.
HomeContinue(c) ==
    /\ c \in homeView.pending
    /\ calls[c].pc = "done"
    /\ LET settled ==
            IF calls[c].outcome.type = "resolved"
              THEN HomeShowData(homeView, calls[c].outcome.value)
              ELSE [homeView EXCEPT !.error = Str(calls[c].outcome.error),
                                    !.articles = 0]
       IN homeView' =
            [settled EXCEPT
                !.isLoading = FALSE,
                !.pending = @ \ {c},
                !.awaiting = IF @ = c THEN 0 ELSE @,
                !.latestResult =
                    IF homeView.awaiting = c
                      THEN [articles |-> settled.articles,
                            totalResults |-> settled.totalResults]
                      ELSE @]
    /\ UNCHANGED <<scenario, now, cache, localStorage, navigatorLanguage, config, calls,
                   started, lastSuccess, settingsView, proxy, tabVars, lastSaved>>

HomeMounted(c) ==
    /\ ~homeView.mounted
    /\ loadArticles(c, [homeView EXCEPT !.mounted = TRUE])

retryFetch(c) ==
    /\ homeView.mounted
    /\ loadArticles(c, homeView)

nextPage(c) ==
    /\ homeView.mounted
    /\ homeView.currentPage < totalPages(homeView)
    /\ loadArticles(c, [homeView EXCEPT !.currentPage = @ + 1])

previousPage(c) ==
    /\ homeView.mounted
    /\ homeView.currentPage > 1
    /\ loadArticles(c, [homeView EXCEPT !.currentPage = @ - 1])

\* The query typed in the search box, then performSearch.
performSearch(c, typed) ==
    /\ homeView.mounted
    /\ Truthy(Chars(Trim(typed.chars)))
    /\ loadArticles(c, [homeView EXCEPT !.searchQuery = typed, !.isSearching = TRUE,
                                        !.currentPage = 1])

clearSearch(c) ==
    /\ homeView.mounted
    /\ homeView.isSearching
    /\ loadArticles(c, [homeView EXCEPT !.searchQuery = Chars(<<>>),
                                        !.isSearching = FALSE, !.currentPage = 1])

\* What the user types in the search box.
TypedQueries == { QueryTest, Chars(<<"<", "b", ">">>) }

HomeNext ==
    \/ \E c \in CallIds : HomeMounted(c)
    \/ \E c \in CallIds : retryFetch(c)
    \/ \E c \in CallIds : nextPage(c)
    \/ \E c \in CallIds : previousPage(c)
    \/ \E c \in CallIds : \E typed \in TypedQueries : performSearch(c, typed)
    \/ \E c \in CallIds : clearSearch(c)
    \/ \E c \in CallIds : HomeContinue(c)
    \/ \E c \in CallIds : \E r \in Responses(scenario) : Respond(c, r)
    \/ \E c \in CallIds : Wake(c)
    \/ \E c \in CallIds : Json(c)
    \/ \E d \in TickSteps : Tick(d)

HomeInit == InitCached("home")
HomeSpec == HomeInit /\ [][HomeNext]_vars

\* The user acts again while an earlier load is suspended: the handlers run
\* whenever their controls are shown, and the answers arrive in any order.
OverlapNext ==
    \/ \E c \in DOMAIN calls : HomeMounted(c)
    \/ \E c \in DOMAIN calls : retryFetch(c)
    \/ \E c \in DOMAIN calls : nextPage(c)
    \/ \E c \in DOMAIN calls : previousPage(c)
    \/ \E c \in DOMAIN calls : \E typed \in TypedQueries : performSearch(c, typed)
    \/ \E c \in DOMAIN calls : clearSearch(c)
    \/ \E c \in DOMAIN calls : HomeContinue(c)
    \/ \E c \in DOMAIN calls : \E r \in Responses(scenario) : Respond(c, r)
    \/ \E c \in DOMAIN calls : Json(c)

OverlapInit ==
    /\ InitShared
    /\ calls = [c \in ConcurrentCallIds |-> IdleCall]
    /\ scenario = "overlap"
    /\ config = [build |-> "cached", VUE_APP_VERCEL_API_URL |-> Undefined,
                 VUE_APP_NEWS_API_KEY |-> Undefined]
    /\ localStorage = EmptyStorage
    /\ navigatorLanguage = "EN-us"
    /\ InitHistory

OverlapSpec == OverlapInit /\ [][OverlapNext]_vars

-----------------------------------------------------------------------------
(* api/news.js: the forwarding handler *)

allowedOrigins ==
    { "https://matheus-c-martins.github.io", "http://localhost:8080",
      "http://localhost:3000", "http://127.0.0.1:8080", "http://127.0.0.1:3000" }

\* The headers set before any logic.
CorsHeaders(origin) ==
    (IF Truthy(origin) /\ origin.str \in allowedOrigins
       THEN [AccessControlAllowOrigin |-> origin.str,
             AccessControlAllowCredentials |-> "true"]
       ELSE [AccessControlAllowOrigin |-> "*"])
    @@ [AccessControlAllowMethods |-> "GET, OPTIONS",
        AccessControlAllowHeaders |-> "Content-Type, Authorization, X-Requested-With",
        AccessControlMaxAge |-> "86400"]

\* A destructured member of req.query with its default.
QueryOr(query, name, default) ==
    IF query[name].type = "undefined" THEN default ELSE query[name].str

\* process.env.VUE_APP_NEWS_API_KEY || process.env.NEWS_API_KEY
ProxyApiKey(env) ==
    IF Truthy(env.VUE_APP_NEWS_API_KEY) THEN env.VUE_APP_NEWS_API_KEY
    ELSE env.NEWS_API_KEY

\* The URL the handler builds: the endpoint and the parameters it writes.
ProxyUpstreamUrl(query, apiKey) ==
    LET sortBy == QueryOr(query, "sortBy", "publishedAt")
        language == QueryOr(query, "language", "en")
        page == QueryOr(query, "page", "1")
        endpoint == QueryOr(query, "endpoint", "top-headlines")
        common == [language |-> language, page |-> page, pageSize |-> "20",
                   apiKey |-> apiKey]
    IN IF endpoint = "everything" \/ Truthy(query.q)
         THEN [base |-> "https://newsapi.org/v2/everything",
               query |-> (IF Truthy(query.q) THEN [q |-> query.q.str] ELSE <<>>)
                          @@ [sortBy |-> sortBy] @@ common]
         ELSE [base |-> "https://newsapi.org/v2/top-headlines",
               query |-> (IF Truthy(query.category)
                            THEN [category |-> query.category.str] ELSE <<>>)
                          @@ common]

\* handler(req, res) up to its first await or its return.
\* A handler that calls the upstream API whatever key the server holds.
handlerKeyUnchecked(req, env) ==
    LET headers == CorsHeaders(req.origin)
        apiKey == ProxyApiKey(env)
    IN IF req.method = "OPTIONS"
         THEN [pc |-> "done", req |-> req,
               res |-> [status |-> 200, headers |-> headers, body |-> Null]]
       ELSE IF req.method # "GET"
         THEN [pc |-> "done", req |-> req,
               res |-> [status |-> 405, headers |-> headers,
                        body |-> [status |-> "error",
                                  message |-> "Method not allowed. Only GET and OPTIONS are supported."]]]
       ELSE [pc |-> "fetching", req |-> req, headers |-> headers,
             upstream |-> [method |-> "GET",
                           url |-> ProxyUpstreamUrl(req.query,
                                     IF Truthy(apiKey) THEN apiKey.str ELSE "undefined")]]

handler(req, env) ==
    LET headers == CorsHeaders(req.origin)
        apiKey == ProxyApiKey(env)
    IN IF req.method = "OPTIONS"
         THEN [pc |-> "done", req |-> req,
               res |-> [status |-> 200, headers |-> headers, body |-> Null]]
       ELSE IF req.method # "GET"
         THEN [pc |-> "done", req |-> req,
               res |-> [status |-> 405, headers |-> headers,
                        body |-> [status |-> "error",
                                  message |-> "Method not allowed. Only GET and OPTIONS are supported."]]]
       ELSE IF ~Truthy(apiKey)
         THEN [pc |-> "done", req |-> req,
               res |-> [status |-> 500, headers |-> headers,
                        body |-> [status |-> "error",
                                  message |-> "API key not configured on server. Please check Vercel environment variables."]]]
       ELSE [pc |-> "fetching", req |-> req, headers |-> headers,
             upstream |-> [method |-> "GET",
                           url |-> ProxyUpstreamUrl(req.query, apiKey.str)]]

\* The handler after its awaits: the upstream answer is relayed with its
\* status, and a failed fetch or an unparsable body is answered 500.
handlerRelay(invocation, r) ==
    [pc |-> "done", req |-> invocation.req,
     res |-> IF r.type = "response" /\ "body" \in DOMAIN r
               THEN [status |-> r.status, headers |-> invocation.headers,
                     body |-> r.body]
               ELSE [status |-> 500, headers |-> invocation.headers,
                     body |-> [status |-> "error",
                               message |-> "Failed to fetch news from server"]]]

\* The requests that reach the handler.
NoQuery ==
    [q |-> Undefined, category |-> Undefined, sortBy |-> Undefined,
     language |-> Undefined, page |-> Undefined, endpoint |-> Undefined,
     pageSize |-> Undefined, sources |-> Undefined]

ProxyQueries ==
    { [NoQuery EXCEPT !.endpoint = e, !.q = q,
                      !.category = shape.category, !.sortBy = shape.sortBy,
                      !.language = shape.language, !.page = shape.page,
                      !.pageSize = shape.pageSize, !.sources = shape.sources] :
        e \in {Undefined, Str("top-headlines"), Str("everything")},
        q \in {Undefined, Str("test")},
        shape \in
          { [NoQuery EXCEPT !.language = Str("pt")],
            [NoQuery EXCEPT !.language = Str("en"), !.pageSize = Str("20")],
            [NoQuery EXCEPT !.language = Str("en"), !.pageSize = Str("50"),
                            !.sources = Str("bbc-news")],
            [NoQuery EXCEPT !.category = Str("sports"), !.page = Str("2")],
            [NoQuery EXCEPT !.sortBy = Str("relevancy"), !.page = Str("2"),
                            !.pageSize = Str("20")],
            NoQuery } }

ProxyRequests ==
    { [method |-> "GET", origin |-> o, query |-> qu] :
        o \in {Undefined, Str("http://localhost:8080")}, qu \in ProxyQueries }
    \cup
    { [method |-> m, origin |-> o, query |-> NoQuery] :
        m \in {"OPTIONS", "POST"},
        o \in {Undefined, Str("http://localhost:8080"), Str("https://evil.example")} }

\* What the upstream API answers.
UpstreamAnswers ==
    { [type |-> "response", status |-> 200, body |-> PayloadA],
      [type |-> "response", status |-> 401,
       body |-> [status |-> "error", code |-> "apiKeyInvalid"]],
      [type |-> "response", status |-> 502],          \* not JSON: json() throws
      NetworkError("fetch failed") }

\* The handler is invoked.
ProxyReceive(req) ==
    /\ config.build = "proxy"
    /\ proxy.pc \in {"idle", "done"}
    /\ proxy' = handler(req, config)
    /\ UNCHANGED <<scenario, now, cache, localStorage, navigatorLanguage, config, calls,
                   started, lastSuccess, settingsView, homeView, tabVars, lastSaved>>

\* The upstream fetch settles and the answer is relayed.
ProxyRelay(r) ==
    /\ proxy.pc = "fetching"
    /\ proxy' = handlerRelay(proxy, r)
    /\ UNCHANGED <<scenario, now, cache, localStorage, navigatorLanguage, config, calls,
                   started, lastSuccess, settingsView, homeView, tabVars, lastSaved>>

ProxyNext ==
    \/ \E req \in ProxyRequests : ProxyReceive(req)
    \/ \E r \in UpstreamAnswers : ProxyRelay(r)

\* The environment of the deployed function.
ProxyEnvs ==
    { [build |-> "proxy", VUE_APP_NEWS_API_KEY |-> a, NEWS_API_KEY |-> b] :
        a \in {Undefined, Str("secret-key")}, b \in {Undefined, Str("server-key")} }

ProxyInit ==
    /\ InitCommon
    /\ scenario = "proxy"
    /\ config \in ProxyEnvs
    /\ localStorage = EmptyStorage
    /\ navigatorLanguage = "EN-us"
    /\ InitHistory

ProxySpec == ProxyInit /\ [][ProxyNext]_vars

-----------------------------------------------------------------------------
(* composables/useSettings.js in two tabs that share localStorage.  A write  *)
(* that changes a key queues a storage event for every other tab; events of  *)
(* keys the listener ignores (appLanguage) are left out.  App.vue calls      *)
(* useSettings(), so the two watchers run after every change of a ref.       *)

\* Settings operations the users make in one behaviour.
MaxOps == 3

\* String(isDark)
BoolString(b) == IF b THEN "true" ELSE "false"

\* localStorage.setItem(key, value) in tab t, on the world w = [ls, tabs].
SetItem(w, t, key, value) ==
    IF w.ls[key] = Str(value) THEN w
    ELSE [ls |-> [w.ls EXCEPT ![key] = Str(value)],
          tabs |-> [u \in TabIds |->
                      IF u = t THEN w.tabs[u]
                      ELSE [w.tabs[u] EXCEPT !.queue =
                                Append(@, [key |-> key, newValue |-> value])]]]

applyDarkMode(w, t, isDark) ==
    SetItem([w EXCEPT !.tabs[t].htmlDark = isDark], t, "darkMode", BoolString(isDark))

\* watch(isDarkMode, ...): runs when the ref changed.
DarkModeWatcher(w, t, before) ==
    IF w.tabs[t].isDarkMode # before
      THEN applyDarkMode(w, t, w.tabs[t].isDarkMode)
      ELSE w

\* watch(currentLanguage, ...): runs when the ref changed.
LanguageWatcher(w, t, before) ==
    LET newVal == w.tabs[t].currentLanguage IN
    IF newVal # before /\ Truthy(LanguagesLookup(newVal))
      THEN SetItem([w EXCEPT !.ls = setLanguage(w.ls, newVal).storage],
                   t, "language", newVal)
      ELSE w

toggleDarkMode(w, t) ==
    LET value == ~w.tabs[t].isDarkMode
        set == [w EXCEPT !.tabs[t].isDarkMode = value]
    IN DarkModeWatcher(applyDarkMode(set, t, value), t, w.tabs[t].isDarkMode)

changeLanguage(w, t, lang) ==
    IF ~Truthy(LanguagesLookup(lang)) THEN w
    ELSE LET set == [w EXCEPT !.tabs[t].currentLanguage = lang,
                              !.ls = setLanguage(w.ls, lang).storage]
         IN LanguageWatcher(SetItem(set, t, "language", lang), t,
                            w.tabs[t].currentLanguage)

\* A listener that handles the darkMode key alone.
onStorageDarkModeOnly(w, t, event) ==
    IF event.key = "darkMode"
      THEN LET value == (event.newValue = "true")
               set == [w EXCEPT !.tabs[t].isDarkMode = value]
           IN DarkModeWatcher(applyDarkMode(set, t, value), t, w.tabs[t].isDarkMode)
      ELSE w

\* The listener of watchStorageChanges, then the watchers.
onStorage(w, t, event) ==
    IF event.key = "darkMode"
      THEN LET value == (event.newValue = "true")
               set == [w EXCEPT !.tabs[t].isDarkMode = value]
           IN DarkModeWatcher(applyDarkMode(set, t, value), t, w.tabs[t].isDarkMode)
    ELSE IF event.key = "language"
      THEN LET newLang == IF event.newValue = "" THEN "en" ELSE event.newValue IN
           IF Truthy(LanguagesLookup(newLang))
             THEN LanguageWatcher(
                    [w EXCEPT !.tabs[t].currentLanguage = newLang,
                              !.ls = setLanguage(w.ls, newLang).storage],
                    t, w.tabs[t].currentLanguage)
             ELSE w
    ELSE w

World == [ls |-> localStorage, tabs |-> tabs]

\* Codes passed to changeLanguage.
ChangeCodes == {"pt", "xx", "toString"}

\* The user of tab t clicks the theme button.
ToggleDarkMode(t) ==
    /\ config.build = "cached"
    /\ userOps < MaxOps
    /\ userOps' = userOps + 1
    /\ LET w == toggleDarkMode(World, t) IN
        /\ localStorage' = w.ls
        /\ tabs' = [w.tabs EXCEPT ![t].last = [op |-> "toggleDarkMode"]]
    /\ UNCHANGED <<scenario, now, cache, navigatorLanguage, config, calls, started,
                   lastSuccess, settingsView, homeView, proxy, lastSaved>>

\* changeLanguage(lang) is called in tab t.
ChangeLanguage(t, lang) ==
    /\ config.build = "cached"
    /\ userOps < MaxOps
    /\ userOps' = userOps + 1
    /\ LET w == changeLanguage(World, t, lang) IN
        /\ localStorage' = w.ls
        /\ tabs' = [w.tabs EXCEPT ![t].last =
                       [op |-> "changeLanguage", lang |-> lang,
                        changed |-> \/ w.ls # localStorage
                                    \/ w.tabs[t].currentLanguage # tabs[t].currentLanguage]]
    /\ UNCHANGED <<scenario, now, cache, navigatorLanguage, config, calls, started,
                   lastSuccess, settingsView, homeView, proxy, lastSaved>>

\* The oldest storage event queued for tab t is dispatched to its listener.
DeliverStorageEvent(t) ==
    /\ Len(tabs[t].queue) > 0
    /\ LET event == Head(tabs[t].queue)
           taken == [World EXCEPT !.tabs[t].queue = Tail(@)]
           w == onStorage(taken, t, event)
       IN /\ localStorage' = w.ls
          /\ tabs' = [w.tabs EXCEPT ![t].last = [op |-> "storage", key |-> event.key]]
    /\ UNCHANGED <<scenario, now, cache, navigatorLanguage, config, calls, started,
                   lastSuccess, settingsView, homeView, proxy, userOps, lastSaved>>

TabsNext ==
    \/ \E t \in TabIds : ToggleDarkMode(t)
    \/ \E t \in TabIds : \E lang \in ChangeCodes : ChangeLanguage(t, lang)
    \/ \E t \in TabIds : DeliverStorageEvent(t)

\* Both tabs have loaded: the first wrote the theme it chose, the second read it.
TabsInit ==
    /\ InitCommon
    /\ scenario = "tabs"
    /\ config = [build |-> "cached", VUE_APP_VERCEL_API_URL |-> Undefined,
                 VUE_APP_NEWS_API_KEY |-> Undefined]
    /\ localStorage = [EmptyStorage EXCEPT !.darkMode = Str("false")]
    /\ navigatorLanguage = "EN-us"
    /\ InitHistory

TabsSpec == TabsInit /\ [][TabsNext]_vars

\* Every queued storage event is eventually dispatched.
FairTabsSpec ==
    /\ TabsSpec
    /\ \A t \in TabIds : WF_vars(DeliverStorageEvent(t))

-----------------------------------------------------------------------------
(* Properties *)

InProgress(call) == call.pc \in {"fetching", "backoff", "json"}
Done(call) == call.pc = "done"
Failed(call) == Done(call) /\ call.outcome.type = "rejected"
Succeeded(call) == Done(call) /\ call.outcome.type = "resolved"

\* C1: a fetchTopHeadlines call made after a successful fetch of the same
\* canonical parameters (and no clearCache since) issues no network request and
\* returns the stored payload when less than CACHE_DURATION has elapsed since
\* that fetch, and issues a network request when CACHE_DURATION has elapsed.
C1_CachedWithinTtlRefetchedAfter ==
    \A c \in CallIds :
        LET call == calls[c] IN
        (call.op = "fetchTopHeadlines" /\ call.valid /\ call.prior # Null) =>
            IF call.startedAt - call.prior.at < CACHE_DURATION
              THEN /\ call.reqs = 0
                   /\ Succeeded(call)
                   /\ call.outcome.value = call.prior.data
              ELSE call.reqs >= 1

C1_Witness ==
    \E c \in CallIds :
        /\ calls[c].op = "fetchTopHeadlines"
        /\ calls[c].prior # Null
        /\ calls[c].startedAt > calls[c].prior.at
        /\ calls[c].hit
        /\ calls[c].reqs = 0
        /\ Succeeded(calls[c])

\* C2: when the first attempt of a fetchTopHeadlines call answers 429 the
\* call is not failed but retried, and once a later attempt answers 200 the
\* call resolves with that answer's payload: one outcome, a success.
C2_RateLimitedThenOk ==
    \A c \in CallIds :
        LET call == calls[c] IN
        (call.op = "fetchTopHeadlines" /\ Len(call.resps) >= 1
            /\ call.resps[1] = Response(429)) =>
            /\ Len(call.resps) = 1 => call.pc \in {"backoff", "fetching"}
            /\ \A j \in 2..Len(call.resps) :
                ResponseOk(call.resps[j]) =>
                    /\ j = Len(call.resps)
                    /\ call.pc \in {"json", "done"}
                    /\ call.settled = (IF Done(call) THEN 1 ELSE 0)
                    /\ Done(call) => call.outcome = Resolved(call.resps[j].body)

C2_Witness ==
    \E c \in CallIds :
        /\ calls[c].op = "fetchTopHeadlines"
        /\ calls[c].resps = <<Response(429), Ok200(PayloadA)>>
        /\ calls[c].outcome = Resolved(PayloadA)
        /\ calls[c].settled = 1

\* C3: an answer of 401, 403 or 500 is the last answer of its call, on
\* whichever attempt it arrives: no further request is made and the call has
\* failed with that status's error.
C3_NoRetryOnAuthOrServerError ==
    \A c \in CallIds :
        LET call == calls[c] IN
        \A j \in 1..Len(call.resps) :
            (IsResponse(call.resps[j]) /\ call.resps[j].status \in {401, 403, 500}) =>
                /\ j = Len(call.resps)
                /\ call.reqs = j
                /\ Failed(call)
                /\ call.outcome.error = handleResponseError(call.resps[j].status)

C3_Witness ==
    \E c \in CallIds :
        /\ Len(calls[c].resps) = 2
        /\ calls[c].resps[2] = Response(500)
        /\ calls[c].reqs = 2
        /\ Failed(calls[c])

\* C4: a call of fetchTopHeadlines or searchNews performs at most 3 network
\* attempts, and once started it always ends, with a result or a failure.
C4_BoundedAttemptsAndTermination ==
    /\ [](\A c \in CallIds : calls[c].reqs <= 3 /\ Len(calls[c].resps) <= 3)
    /\ \A c \in CallIds : InProgress(calls[c]) ~> Done(calls[c])

C4_Witness ==
    \E c \in CallIds :
        /\ calls[c].reqs = 3
        /\ Len(calls[c].resps) = 3
        /\ Done(calls[c])

\* C5: a fetch that fails with no response (whatever the error's text) while
\* attempts remain is waited on and retried: it never ends the call.
C5_ConnectivityFailureRetried ==
    \A c \in CallIds :
        LET call == calls[c] IN
        \A j \in 1..Len(call.resps) :
            (~IsResponse(call.resps[j]) /\ j < Retries) =>
                ~(Done(call) /\ Len(call.resps) = j)

\* The failures of local validation, by the message thrown.
InvalidPageErrors ==
    {"Page number must be a positive integer", "Page number cannot exceed 100"}
InvalidQueryErrors ==
    {"Search query (q) is required", "Search query must be a string",
     "Search query cannot be empty", "Search query cannot exceed 500 characters",
     "Search contains invalid characters"}

\* The inputs that fail local validation, as the specification lists them.
CategoryInvalid(options) ==
    Truthy(options.category) /\ ToLowerCase(options.category.str) \notin validCategories
PageInvalid(options) ==
    /\ options.page.type \notin {"undefined", "null"}
    /\ ~(options.page.type = "number" /\ options.page.num >= 1 /\ options.page.num <= 100)
QueryMissing(options) ==
    ~(options.q.type = "string" /\ "chars" \in DOMAIN options.q)
QueryIllFormed(options) ==
    \E i \in 1..Len(Trim(options.q.chars)) : Trim(options.q.chars)[i] \notin QueryCharClass
QueryInvalidTrimmed(options) ==
    \/ QueryMissing(options)
    \/ Len(Trim(options.q.chars)) = 0
    \/ Len(Trim(options.q.chars)) > 500
    \/ QueryIllFormed(options)
LanguageUnrecognized(options) ==
    resolveLanguage(options, localStorage, navigatorLanguage) \notin DOMAIN LANGUAGES

FailsLocalValidation(call) ==
    \/ LanguageUnrecognized(call.options)
    \/ PageInvalid(call.options)
    \/ call.op = "fetchTopHeadlines" /\ CategoryInvalid(call.options)
    \/ call.op = "searchNews" /\ QueryInvalidTrimmed(call.options)

\* C6: a call whose input fails local validation fails without any network
\* request or retry, and the step that makes it leaves the cache unchanged.
C6_ValidationNeverReachesNetwork ==
    /\ [](\A c \in CallIds :
            (calls[c].pc # "idle" /\ FailsLocalValidation(calls[c])) =>
                /\ Failed(calls[c])
                /\ calls[c].reqs = 0
                /\ calls[c].resps = <<>>)
    /\ [][\A c \in CallIds :
            (calls'[c] # calls[c] /\ calls'[c].pc # "idle"
                /\ FailsLocalValidation(calls'[c])) => cache' = cache]_vars

CarriesCredential(request) ==
    \/ "X-Api-Key" \in DOMAIN request.headers
    \/ "apiKey" \in DOMAIN request.url.query
    \/ /\ Truthy(API_KEY(config))
       /\ \/ \E h \in DOMAIN request.headers : request.headers[h] = API_KEY(config).str
          \/ \E n \in DOMAIN request.url.query \cap {"language", "category", "sortBy", "endpoint"} :
                request.url.query[n] = API_KEY(config).str

\* The build addresses the forwarding endpoint: always in the cached build,
\* and in the dual-mode build when a forwarding base URL is configured.
ForwardingMode == config.build = "cached" \/ USE_PROXY(config)

\* C9: in forwarding mode the request of every call, sent unchanged on every
\* attempt, carries the API credential neither in a header nor in the query
\* string.
C9_NoCredentialWhenForwarding ==
    \A c \in CallIds :
        (ForwardingMode /\ calls[c].reqs >= 1) =>
            /\ ~CarriesCredential(calls[c].request)
            /\ calls[c].request.url.path = ""

C9_Witness ==
    \E c \in CallIds :
        /\ config.build = "dual"
        /\ USE_PROXY(config)
        /\ Truthy(API_KEY(config))
        /\ calls[c].reqs >= 1
        /\ Succeeded(calls[c])

\* C10: in direct mode with no credential configured, every call fails with
\* a missing-credential failure and issues no network request.
C10_MissingCredentialFailsFast ==
    \A c \in CallIds :
        (config.build = "dual" /\ ~USE_PROXY(config) /\ ~Truthy(API_KEY(config))
            /\ calls[c].pc # "idle") =>
            /\ calls[c].reqs = 0
            /\ Failed(calls[c])
            /\ calls[c].outcome.error = "API key not configured"

-----------------------------------------------------------------------------
\* What the store holds for language L, read off the stored object.
PersistedSelection(ls, L) ==
    LET stored == ls.selectedNewsSourcesByLanguage IN
    IF stored # Null /\ stored.type = "json" /\ L \in DOMAIN stored.data
      THEN stored.data[L]
      ELSE <<>>

\* The ids of a comma-joined filter.
FilterIds(filter) == { filter[i] : i \in 1..Len(filter) } \ {","}

\* A call has just been made and has built a request.
BuiltRequest(c) ==
    /\ started' = started + 1
    /\ calls'[c].pc = "fetching"

\* C11: every request built by fetchTopHeadlines or searchNews for language L
\* carries a sources filter if and only if the selection persisted for L is
\* not empty; the filter is then exactly the comma-joined selection of L, and
\* no id selected only for another language appears in it.
C11_SourcesFilterIsSelectionOfLanguage ==
    [][\A c \in CallIds :
        BuiltRequest(c) =>
            LET L == resolveLanguage(calls'[c].options, localStorage, navigatorLanguage)
                selection == PersistedSelection(localStorage, L)
                query == calls'[c].request.url.query
            IN /\ ("sources" \in DOMAIN query) <=> (Len(selection) > 0)
               /\ Len(selection) > 0 =>
                    /\ Len(query.sources) = 2 * Len(selection) - 1
                    /\ \A i \in 1..Len(query.sources) :
                          query.sources[i] =
                            IF i % 2 = 1 THEN selection[(i + 1) \div 2] ELSE ","
                    /\ \A M \in DOMAIN LANGUAGES \ {L} :
                          \A id \in FilterIds(query.sources) :
                            (\E j \in 1..Len(PersistedSelection(localStorage, M)) :
                                PersistedSelection(localStorage, M)[j] = id)
                              => \E j \in 1..Len(selection) : selection[j] = id]_vars

\* A request for 'en' carries the two ids selected for 'en' while another
\* language has a selection of its own; and a request for 'pt' carries no
\* filter while 'en' has a selection.
C11_Witness ==
    \E c \in CallIds :
        /\ calls[c].pc = "fetching"
        /\ calls[c].reqs = 1
        /\ "sources" \in DOMAIN calls[c].request.url.query
        /\ Len(calls[c].request.url.query.sources) = 3
        /\ Len(PersistedSelection(localStorage, "pt")) > 0

\* C12: after any sequence of saves, page visits and language switches, the
\* selection read for each language is the one last saved for that language
\* (or the one the store held at first, if none was saved): a save for L
\* makes L read as saved and leaves what every other language reads.
C12_SaveChangesOnlyItsLanguage ==
    \A L \in DOMAIN LANGUAGES :
        getSelectedSourcesForLanguage(localStorage, L) = lastSaved[L]

\* Selections were saved for 'en' and then for 'fr', the language was
\* switched, and both are still read back along with the one 'pt' had.
C12_Witness ==
    /\ localStorage.appLanguage = Str("pt")
    /\ getSelectedSourcesForLanguage(localStorage, "en") = <<"cnn">>
    /\ getSelectedSourcesForLanguage(localStorage, "fr") = <<"le-monde">>
    /\ getSelectedSourcesForLanguage(localStorage, "pt") = <<"globo">>
    /\ settingsView.mounted

-----------------------------------------------------------------------------
\* The last answer a call received is a failure of the network call.
NetworkCallFailed(call) ==
    /\ Done(call)
    /\ call.reqs > 0
    /\ LET last == call.resps[Len(call.resps)] IN
        ~IsResponse(last) \/ ~ResponseOk(last)

\* C13 (as stated): every successful result of fetchTopHeadlines has
\* totalResults <= 100 and at most pageSize articles, whatever the server
\* reports.
C13_ResultClampedByService ==
    \A c \in CallIds :
        (Succeeded(calls[c]) /\ calls[c].op = "fetchTopHeadlines") =>
            LET data == calls[c].outcome.value IN
            /\ TotalOrZero(data) <= 100
            /\ "articles" \in DOMAIN data =>
                    data.articles <= clampPageSize(calls[c].options.pageSize)

\* C13 (amended): a successful fetchTopHeadlines or searchNews result is the
\* body the server sent, unchanged; the total the home view keeps from the
\* result it shows is min(reported total, 100), so never above 100.
C13_TotalClampedByView ==
    /\ \A c \in CallIds :
          (Succeeded(calls[c]) /\ ~calls[c].hit) =>
              calls[c].outcome.value = calls[c].resps[Len(calls[c].resps)].body
    /\ homeView.totalResults <= 100
    /\ \A c \in CallIds :
          (homeView.awaiting = 0 /\ homeView.mounted /\ Succeeded(calls[c])
             /\ "articles" \in DOMAIN calls[c].outcome.value) =>
              /\ homeView.totalResults = Min(calls[c].outcome.value.totalResults, 100)
              /\ homeView.articles = calls[c].outcome.value.articles

\* The server reported 250 results and the view keeps 100.
C13_Witness ==
    \E c \in CallIds :
        /\ homeView.awaiting = 0
        /\ Succeeded(calls[c])
        /\ calls[c].op = "fetchTopHeadlines"
        /\ calls[c].outcome.value = PayloadB
        /\ PayloadB.totalResults = 250
        /\ homeView.totalResults = 100
        /\ ~homeView.isLoading

FailureMessages ==
    { "Proxy authentication failed. Check backend configuration.",
      "Access denied: Backend may not have API key configured.",
      "Rate limit exceeded: Too many requests. Please try again later.",
      "Proxy server error: Backend service temporarily unavailable.",
      "API Error: 404 Not Found",
      "Failed to fetch", "Network error" }

-----------------------------------------------------------------------------
\* C15: a call that is answered from the cache returns a payload that a call
\* of the same operation stored: searchNews never returns what
\* fetchTopHeadlines stored, nor fetchTopHeadlines what searchNews stored.
C15_NoCrossOperationCacheHit ==
    \A c \in CallIds :
        calls[c].hit =>
            /\ calls[c].prior # Null
            /\ calls[c].prior.op = calls[c].op
            /\ calls[c].outcome.value = calls[c].prior.data

\* A search is answered from the cache while the cache also holds a payload
\* stored by fetchTopHeadlines for the same language and page size.
C15_Witness ==
    \E c \in CallIds :
        /\ calls[c].hit
        /\ calls[c].op = "searchNews"
        /\ \E k \in DOMAIN cache :
              /\ k \in DOMAIN lastSuccess
              /\ lastSuccess[k].op = "fetchTopHeadlines"

-----------------------------------------------------------------------------
\* The parameters a client may send besides endpoint.
ForwardedNames == {"language", "category", "q", "sortBy", "page", "pageSize", "sources"}

\* C16: for every GET request the forwarding handler accepts, each parameter
\* the client sent other than endpoint appears in the request sent to the
\* upstream API with the same value.
C16_ParametersPassThrough ==
    proxy.pc = "fetching" =>
        \A name \in ForwardedNames :
            proxy.req.query[name].type # "undefined" =>
                /\ name \in DOMAIN proxy.upstream.url.query
                /\ proxy.upstream.url.query[name] = proxy.req.query[name].str

-----------------------------------------------------------------------------
\* The number a pageSize input stands for, where it stands for one.
IsNumeric(given) ==
    given.type = "number" \/ (given.type = "string" /\ given.str \in {"50", "150"})
NumericValue(given) ==
    IF given.type = "number" THEN given.num
    ELSE IF given.str = "50" THEN 50 ELSE 150

-----------------------------------------------------------------------------
\* C18: searchNews never fails because of sortBy: relevancy, popularity and
\* publishedAt are sent unchanged, and any other value, or none, is replaced
\* by publishedAt.
C18_SortByDefaulted ==
    \A c \in CallIds :
        LET call == calls[c]
            given == call.options.sortBy
            accepted == given.type = "string"
                          /\ given.str \in {"relevancy", "popularity", "publishedAt"}
        IN call.op = "searchNews" =>
            /\ call.valid
            /\ call.reqs >= 1
            /\ call.request.url.query.sortBy =
                    IF accepted THEN given.str ELSE "publishedAt"
            /\ Failed(call) => ~IsResponse(call.resps[Len(call.resps)])
                                \/ ~ResponseOk(call.resps[Len(call.resps)])

\* A search asked for an unknown order was sent with publishedAt and
\* succeeded.
C18_Witness ==
    \E c \in CallIds :
        /\ calls[c].op = "searchNews"
        /\ calls[c].options.sortBy = Str("newest")
        /\ calls[c].request.url.query.sortBy = "publishedAt"
        /\ Succeeded(calls[c])

-----------------------------------------------------------------------------
\* C19: setting the active language to a code that names no profile changes
\* neither the persisted language nor the current language of the tab, and
\* after any sequence of calls the active language names a profile.
C19_UnknownLanguageIsNoOp ==
    /\ \A t \in TabIds : tabs[t].currentLanguage \in DOMAIN LANGUAGES
    /\ localStorage.appLanguage # Null =>
            localStorage.appLanguage.str \in DOMAIN LANGUAGES
    /\ localStorage.language # Null =>
            localStorage.language.str \in DOMAIN LANGUAGES
    /\ \A t \in TabIds :
          (/\ tabs[t].last # Null
           /\ tabs[t].last.op = "changeLanguage"
           /\ tabs[t].last.lang \notin DOMAIN LANGUAGES) => ~tabs[t].last.changed

\* No storage event is waiting in any tab.
AllDelivered == \A t \in TabIds : Len(tabs[t].queue) = 0

\* Both tabs hold what is persisted.
TabsAgree ==
    \A t \in TabIds :
        /\ localStorage.darkMode = Str(BoolString(tabs[t].isDarkMode))
        /\ localStorage.language # Null =>
                localStorage.language = Str(tabs[t].currentLanguage)
        /\ \A u \in TabIds :
              /\ tabs[u].isDarkMode = tabs[t].isDarkMode
              /\ tabs[u].currentLanguage = tabs[t].currentLanguage

\* C20: after any finite sequence of toggleDarkMode and changeLanguage in
\* either tab, the exchange of storage events stops, and once every event is
\* delivered both tabs hold the persisted isDarkMode and currentLanguage.
C20_TabsConvergeAndStop ==
    /\ [](AllDelivered => TabsAgree)
    /\ <>[]AllDelivered

-----------------------------------------------------------------------------
\* The failure a settled fetch stands for: the message of the rejection, or
\* the message made for the status of the response.
FailureOf(r) ==
    IF IsResponse(r) THEN handleResponseError(r.status) ELSE r.message

\* The call used every attempt fetchWithRetry allows.
AttemptsUsedUp(call) == Len(call.resps) = Retries

\* C21: when all attempts of a call are used up and it fails, the failure
\* surfaced is the one of the last attempt, never one of an earlier attempt.
C21_LastFailureSurfaced ==
    \A c \in DOMAIN calls :
        (AttemptsUsedUp(calls[c]) /\ Failed(calls[c])) =>
            calls[c].outcome.error = FailureOf(calls[c].resps[Retries])

\* A 429 followed by connectivity errors surfaced the connectivity failure.
C21_Witness ==
    \E c \in DOMAIN calls :
        /\ AttemptsUsedUp(calls[c]) /\ Failed(calls[c])
        /\ calls[c].resps[1] = Response(429)
        /\ calls[c].resps[Retries] = NetworkError("Failed to fetch")
        /\ calls[c].outcome.error = "Failed to fetch"

-----------------------------------------------------------------------------
\* The entry of key is in the map and its age is at least the duration.
ExpiredIn(c, key, t) == key \in DOMAIN c /\ t - c[key].timestamp >= CACHE_DURATION

\* C22: a cache lookup returns a payload only when its age is below the TTL,
\* and a lookup that finds an expired entry removes it and reports a miss.
C22_LookupNeverServesExpired ==
    [][\A c \in CallIds :
        (started' # started /\ calls'[c].valid) =>
            LET key == calls'[c].key IN
            /\ calls'[c].hit =>
                  /\ key \in DOMAIN cache
                  /\ now - cache[key].timestamp < CACHE_DURATION
                  /\ calls'[c].outcome = Resolved(cache[key].data)
            /\ ExpiredIn(cache, key, now) =>
                  /\ ~calls'[c].hit
                  /\ calls'[c].pc = "fetching"
                  /\ key \notin DOMAIN cache']_vars

\* The second call looked its key up at the instant the entry of the first
\* call reached the TTL, missed, and the entry is gone.
C22_Witness ==
    \E c \in CallIds :
        /\ started = 2
        /\ calls[c].pc = "fetching"
        /\ calls[c].prior # Null
        /\ calls[c].startedAt - calls[c].prior.at = CACHE_DURATION
        /\ calls[c].key \notin DOMAIN cache

-----------------------------------------------------------------------------
\* C23: every payload held in the cache is a successful result, a call that
\* fails has made no entry, and no call is answered from the cache with an
\* error payload.
C23_CacheHoldsOnlySuccesses ==
    /\ \A k \in DOMAIN cache : cache[k].data.status = "ok"
    /\ \A c \in CallIds :
          /\ (Failed(calls[c]) /\ calls[c].valid /\ calls[c].key \in DOMAIN cache) =>
                 cache[calls[c].key].timestamp <= calls[c].startedAt
          /\ (Done(calls[c]) /\ calls[c].hit) => calls[c].outcome.value.status = "ok"

-----------------------------------------------------------------------------
\* C24: a call started while another call of the same key is still in
\* progress, and before any result of the key is stored, issues a request of
\* its own, as the other did (neither is a hit); and each call that completes writes the entry of the key, so after
\* both the one entry of the key is that of the call that completed last.
C24_ConcurrentCallsBothFetch ==
    /\ [](\A c \in DOMAIN calls :
            /\ (calls[c].overlaps # {} /\ ~calls[c].hit) => calls[c].reqs >= 1
            /\ \A d \in DOMAIN calls \ {c} :
                  (/\ InProgress(calls[c]) /\ InProgress(calls[d])
                   /\ calls[d].key = calls[c].key) =>
                      /\ ~calls[c].hit /\ ~calls[d].hit
                      /\ calls[c].reqs + calls[d].reqs >= 2)
    /\ [][\A c \in DOMAIN calls :
            (calls[c].pc = "json" /\ calls'[c].pc = "done") =>
                /\ DOMAIN cache' = DOMAIN cache \cup {calls[c].key}
                /\ cache'[calls[c].key] = [data |-> calls[c].body, timestamp |-> now]
                /\ lastSuccess'[calls[c].key].by = c]_vars

\* Call 2 started while call 1 was in progress on the same key; both made
\* one request and succeeded with different payloads, call 1 last: the
\* entry is the payload of call 1.
C24_Witness ==
    /\ DOMAIN calls = ConcurrentCallIds
    /\ calls[2].overlaps = {1}
    /\ calls[1].key = calls[2].key
    /\ Succeeded(calls[1]) /\ Succeeded(calls[2])
    /\ calls[1].reqs = 1 /\ calls[2].reqs = 1
    /\ calls[1].outcome.value # calls[2].outcome.value
    /\ calls[1].key \in DOMAIN cache
    /\ lastSuccess[calls[1].key].by = 1
    /\ cache[calls[1].key].data = calls[1].outcome.value

-----------------------------------------------------------------------------
\* The params a request was built from.
ParamsOfRequest(request) ==
    [n \in DOMAIN request.url.query \ {"endpoint"} |-> request.url.query[n]]

\* C25: a cache hit returns a payload fetched with the parameters the
\* current call resolves to, and a response is stored under the key of the
\* parameters its request was built from, whatever the preferences are when
\* it arrives.
C25_HitMatchesResolvedParameters ==
    [][\A c \in CallIds :
        /\ (started' # started /\ calls'[c].hit) =>
              LET k == calls'[c].key
                  prep == paramsOf(calls'[c].op, calls'[c].options, localStorage,
                                   navigatorLanguage)
              IN /\ k \in DOMAIN lastSuccess
                 /\ calls'[c].outcome.value = lastSuccess[k].data
                 /\ lastSuccess[k].op = calls'[c].op
                 /\ ParamsOfRequest(lastSuccess[k].request) = prep.value
        /\ (calls[c].pc = "json" /\ calls'[c].pc = "done") =>
              LET k == cacheKey(calls[c].op, ParamsOfRequest(calls[c].request))
              IN /\ DOMAIN cache' = DOMAIN cache \cup {k}
                 /\ cache'[k].data = calls[c].body]_vars

\* A response arrived after the preferences had changed and was stored
\* under the key of its request; the next call, made under the new
\* preferences, missed and is fetching.
C25_Witness ==
    \E c \in CallIds :
        /\ calls[c].pc = "fetching"
        /\ \E k \in DOMAIN cache :
              /\ k # calls[c].key
              /\ lastSuccess[k].op = calls[c].op
              /\ lastSuccess[k].keyAtStore = calls[c].key

-----------------------------------------------------------------------------
\* C26: no cache lookup that follows a clearCache() returns a payload whose
\* request was issued before that clear, also when the request was in flight
\* as the clear ran.
C26_NoPayloadFromBeforeClear ==
    \A c \in CallIds :
        (Done(calls[c]) /\ calls[c].hit) => ~calls[c].prior.acrossClear

-----------------------------------------------------------------------------
\* C27: in the home view, once every overlapping loadArticles has settled,
\* the articles and totalResults displayed are those the most recently
\* issued request left, whatever order the answers arrived in.
C27_LatestRequestDisplayed ==
    (/\ homeView.mounted
     /\ homeView.pending = {}
     /\ homeView.latestResult # Null) =>
        /\ homeView.articles = homeView.latestResult.articles
        /\ homeView.totalResults = homeView.latestResult.totalResults

\* C28: in the home view, isLoading is true in every state in which a
\* loadArticles is still suspended on its call.
C28_LoadingWhileInFlight ==
    homeView.pending # {} => homeView.isLoading

-----------------------------------------------------------------------------
\* The language the API layer resolves.
ApiLanguage == getCurrentLanguage(localStorage, navigatorLanguage)

\* C29 as stated: in every state reached by changeLanguage calls and storage
\* events, the currentLanguage of a tab is the language getCurrentLanguage()
\* resolves.
C29_UiLanguageIsApiLanguage ==
    \A t \in TabIds : tabs[t].currentLanguage = ApiLanguage

\* C29 amended: the tab in which changeLanguage accepted a code, or whose
\* listener handled a change of the language key, shows the language the API
\* layer resolves as that step ends; and every tab does once no storage
\* event is waiting.
C29_UiLanguageIsApiLanguageOnceDelivered ==
    /\ [](AllDelivered => \A t \in TabIds : tabs[t].currentLanguage = ApiLanguage)
    /\ [][\A t \in TabIds :
            (/\ tabs'[t].last # tabs[t].last \/ Len(tabs'[t].queue) < Len(tabs[t].queue)
             /\ tabs'[t].last # Null
             /\ \/ /\ tabs'[t].last.op = "changeLanguage"
                   /\ Truthy(LanguagesLookup(tabs'[t].last.lang))
                \/ /\ tabs'[t].last.op = "storage"
                   /\ tabs'[t].last.key = "language") =>
                tabs'[t].currentLanguage =
                    getCurrentLanguage(localStorage', navigatorLanguage)]_vars

\* Tab 1 changed the language to 'pt'; tab 2 has handled the storage event
\* and both show the language the API layer resolves.
C29_Witness ==
    /\ AllDelivered
    /\ tabs[1].last # Null /\ tabs[1].last.op = "changeLanguage"
    /\ tabs[2].last # Null /\ tabs[2].last.op = "storage"
    /\ tabs[2].last.key = "language"
    /\ tabs[1].currentLanguage = "pt" /\ tabs[2].currentLanguage = "pt"
    /\ ApiLanguage = "pt"

-----------------------------------------------------------------------------
\* C30: the handler calls the upstream API only for a GET request while a
\* key is configured.  An OPTIONS preflight is answered 200, a request of
\* any other method than GET is answered 405, and a request that passes the
\* method gate while no key is configured is answered 500 by the handler
\* itself, none of them after an upstream call.
C30_GatesNeverReachUpstream ==
    LET keyed == Truthy(ProxyApiKey(config)) IN
    /\ proxy.pc = "fetching" => (proxy.req.method = "GET" /\ keyed)
    /\ proxy.pc = "done" =>
          /\ proxy.req.method = "OPTIONS" =>
                (proxy.res.status = 200 /\ proxy.res.body = Null)
          /\ proxy.req.method \notin {"GET", "OPTIONS"} =>
                /\ proxy.res.status = 405
                /\ proxy.res.body.message =
                      "Method not allowed. Only GET and OPTIONS are supported."
          /\ (proxy.req.method = "GET" /\ ~keyed) =>
                /\ proxy.res.status = 500
                /\ proxy.res.body.message =
                      "API key not configured on server. Please check Vercel environment variables."

\* A GET request arrived at a server without a key and was answered 500.
C30_Witness ==
    /\ proxy.pc = "done"
    /\ proxy.req.method = "GET"
    /\ ~Truthy(ProxyApiKey(config))
    /\ proxy.res.status = 500

====
